---- MODULE Spec2Model ----
(***************************************************************************)
(* Account linking and credential reconciliation of farcaster-automate:    *)
(* the wallet sign-in page (handleWalletAuth), the Farcaster sign-in       *)
(* dialog (FarcasterSignIn.handleSuccess), the wallet hook (useWallet),    *)
(* the hosted Session Store (supabase.auth) and the Link Store (table      *)
(* user_connections with its row-level-security policies).                 *)
(*                                                                         *)
(* JavaScript strings are sequences of one-character strings, so that      *)
(* slice, startsWith, replace and toLowerCase are computed and not         *)
(* assumed.  Values kept in the stores are joined into TLA+ strings.       *)
(***************************************************************************)
EXTENDS Integers, Sequences, FiniteSets, TLC

(***************************************************************************)
(* Bounds of the model.                                                    *)
(***************************************************************************)
MaxFid == 1          \* Farcaster ids 1..MaxFid appear in sign-in payloads
MaxFaults == 1       \* transient store failures injected in one behaviour
MaxHS == 2           \* handleSuccess invocations in flight at once
MaxRecreations == 1  \* channel recreations counted in one dialog session
MaxDays == 9         \* days the clock of the browser advances

(***************************************************************************)
(* JavaScript string primitives.                                           *)
(***************************************************************************)
Min(a, b) == IF a < b THEN a ELSE b

RECURSIVE Join(_)
Join(cs) == IF cs = <<>> THEN "" ELSE Head(cs) \o Join(Tail(cs))

\* String.prototype.slice(from, to) for 0 <= from <= to
Slice(s, from, to) == SubSeq(s, from + 1, Min(to, Len(s)))

StartsWith(s, p) == Len(s) >= Len(p) /\ SubSeq(s, 1, Len(p)) = p

\* positions at which p occurs in s
Occurrences(s, p) ==
    {i \in 1..(Len(s) - Len(p) + 1) : SubSeq(s, i, i + Len(p) - 1) = p}

Includes(s, p) == Occurrences(s, p) # {}

\* String.prototype.replace(p, r) with a string pattern: the first occurrence
Replace(s, p, r) ==
    IF Occurrences(s, p) = {} THEN s
    ELSE LET i == CHOOSE j \in Occurrences(s, p) :
                      \A k \in Occurrences(s, p) : j <= k
         IN  SubSeq(s, 1, i - 1) \o r \o SubSeq(s, i + Len(p), Len(s))

LowerChar(c) ==
    CASE c = "A" -> "a" [] c = "B" -> "b" [] c = "C" -> "c"
      [] c = "D" -> "d" [] c = "E" -> "e" [] c = "F" -> "f"
      [] c = "X" -> "x" [] OTHER -> c

ToLowerCase(s) == [i \in 1..Len(s) |-> LowerChar(s[i])]

Digit(d) == CASE d = 0 -> "0" [] d = 1 -> "1" [] d = 2 -> "2" [] d = 3 -> "3"
              [] d = 4 -> "4" [] d = 5 -> "5" [] d = 6 -> "6" [] d = 7 -> "7"
              [] d = 8 -> "8" [] d = 9 -> "9"

\* `${n}` for a non-negative integer
RECURSIVE NumberToString(_)
NumberToString(n) ==
    IF n < 10 THEN <<Digit(n)>>
    ELSE NumberToString(n \div 10) \o <<Digit(n % 10)>>

Prefix0x == <<"0", "x">>

(***************************************************************************)
(* Inputs.  An address is named by its key k and the letter case the       *)
(* wallet provider reports it in; AddressString is the string the provider *)
(* returns for eth_requestAccounts.                                        *)
(***************************************************************************)
AddressKeys == {1}
AddressForms == {"lower", "checksum"}
Addresses == [k : AddressKeys, form : AddressForms]

AddressString(a) ==
    Prefix0x \o [i \in 1..40 |->
                   IF i % 2 = 0 THEN Digit(a.k)
                   ELSE IF a.form = "checksum" THEN "A" ELSE "a"]

\* The message of src/unnamed/part_003:54 holds the address as the provider
\* reports it, so the signed text follows the letter case of the address.
\* A signature is named by the key that made it (0: not made by any key of
\* the model), the form of the address in the signed message, and its last
\* hex digit: "e" as the key made it, "f" for a string that only starts as
\* the signature of the key does.
WalletSignatures == [signer : AddressKeys \cup {0}, form : AddressForms, last : {"e", "f"}]

SignatureString(sg) ==
    Prefix0x \o [i \in 1..130 |->
                   IF i = 1 THEN Digit(sg.signer)
                   ELSE IF i = 2 THEN (IF sg.form = "checksum" THEN "c" ELSE "b")
                   ELSE IF i = 130 THEN sg.last
                   ELSE "e"]

GenuineSignature(a) == [signer |-> a.k, form |-> a.form, last |-> "e"]

\* what a provider that does not hold the key of a can return
ForgedSignatures(a) ==
    {[signer |-> 0, form |-> "lower", last |-> "e"],
     [signer |-> a.k, form |-> a.form, last |-> "f"]}

Fids == 1..MaxFid
Usernames == {<<"a", "l", "i", "c", "e">>}
DisplayNames == {<<"A", "l">>}
PfpUrls == {<<"p", "1">>}

\* Signatures of the Farcaster relay: every sign-in carries a fresh one; 1 is
\* the signature an account of an earlier release was registered with.
RelaySignatures == {1, 2}
RelaySignatureString(n) ==
    Prefix0x \o [i \in 1..130 |-> IF i = 1 THEN Digit(n) ELSE "d"]

(***************************************************************************)
(* Credential derivation.                                                  *)
(***************************************************************************)
Domain == <<"@", "f", "a", "r", "a", "g", "e", "n", "t", ".", "l", "o", "c", "a", "l">>

\* src/unnamed/part_003:58
NormalizedSignature(signature) ==
    IF StartsWith(signature, Prefix0x) THEN signature ELSE Prefix0x \o signature

\* src/unnamed/part_003:59
NormalizedAddress(address) ==
    IF StartsWith(address, Prefix0x) THEN ToLowerCase(address)
    ELSE Prefix0x \o ToLowerCase(address)

\* src/unnamed/part_003:60
AddressWithoutPrefix(address) ==
    ToLowerCase(Replace(NormalizedAddress(address), Prefix0x, <<>>))

\* src/unnamed/part_003:134
WalletEmail(address) ==
    <<"w", "a", "l", "l", "e", "t", "_">> \o AddressWithoutPrefix(address) \o Domain

\* the signature is sliced as the provider returned it
WalletPassword_RawSignature(address, signature) ==
    <<"w", "_">> \o Slice(signature, 0, 40) \o <<"_">>
                \o Slice(AddressWithoutPrefix(address), 0, 4)

\* src/unnamed/part_003:136-138
WalletPassword(address, signature) ==
    LET signaturePart == Slice(Replace(NormalizedSignature(signature), Prefix0x, <<>>), 0, 40)
        addressPart == Slice(AddressWithoutPrefix(address), 0, 4)
    IN  <<"w", "_">> \o signaturePart \o <<"_">> \o addressPart

\* src/src/components/FarcasterSignIn.tsx:107 and src/unnamed/part_003:79
FarcasterEmail(fid) ==
    <<"f", "a", "r", "c", "a", "s", "t", "e", "r", "_">> \o NumberToString(fid) \o Domain

FcPrefix(fid) == <<"f", "c", "_">> \o NumberToString(fid) \o <<"_">>

\* src/src/components/FarcasterSignIn.tsx:112
FarcasterPassword(fid, username) == Slice(FcPrefix(fid) \o username, 0, 50)

StableKeySuffix == <<"_", "s", "t", "a", "b", "l", "e", "_", "k", "e", "y">>

\* the legacy variant tried before the current one
AltPasswords_StableKeyFirst(fid, username, signature) ==
    <<FcPrefix(fid) \o username \o <<"_", "s", "t", "a", "b", "l", "e", "_", "k", "e", "y">>,
      Slice(FcPrefix(fid) \o username, 0, 50)>>
    \o (IF signature # <<>> THEN <<FcPrefix(fid) \o Slice(signature, 0, 30)>> ELSE <<>>)
    \o (IF signature # <<>> THEN <<FcPrefix(fid) \o Slice(signature, 0, 20)>> ELSE <<>>)

\* src/src/components/FarcasterSignIn.tsx:135-140; signature = <<>> is a
\* payload without one (the entries are filtered out)
AltPasswords(fid, username, signature) ==
    <<FarcasterPassword(fid, username),
      FcPrefix(fid) \o username \o StableKeySuffix>>
    \o (IF signature # <<>> THEN <<FcPrefix(fid) \o Slice(signature, 0, 30)>> ELSE <<>>)
    \o (IF signature # <<>> THEN <<FcPrefix(fid) \o Slice(signature, 0, 20)>> ELSE <<>>)

\* src/unnamed/part_006:52
MockFid == 12345

\* the fids a Link Record of the model can hold
LinkedFids == (1..MaxFid) \cup {MockFid}

\* the strings derived from each fid, computed once
FidText ==
    [fid \in LinkedFids |->
        [email |-> Join(FarcasterEmail(fid)), prefix |-> Join(FcPrefix(fid))]] @@ <<>>

StableKeyText == Join(StableKeySuffix)

\* src/unnamed/part_003:80-86: derived from the fid and username columns of
\* the Link Record (stored strings), without the slice of FarcasterSignIn.tsx:112
LinkedFarcasterPassword(fid, username) == FidText[fid].prefix \o username

LinkedAltPasswords(fid, username) ==
    <<LinkedFarcasterPassword(fid, username),
      FidText[fid].prefix \o username \o StableKeyText>>


(***************************************************************************)
(* State.                                                                  *)
(***************************************************************************)
VARIABLES
    accounts,   \* Session Store (auth.users): email -> password; the user id is the email
    links,      \* Link Store (user_connections): user_id -> row
    session,    \* the user of the Supabase client's session, or NoUser
    user,       \* AuthProvider's React state `user`, or NoUser
    faults,     \* transient store failures injected so far
    wa,         \* the handleWalletAuth attempt in flight (or the last one)
    hs,         \* the handleSuccess invocations of the dialog, by slot
    dlg,        \* the FarcasterSignIn dialog: React state, last render, effects
    probe       \* one evaluation of a derivation: its kind, input and output

vars == <<accounts, links, session, user, faults, wa, hs, dlg, probe>>

NoUser == "none"
NoProbe == [kind |-> "none", input |-> <<>>, output |-> <<>>]
None == <<>>
Some(v) == <<v>>
IsSome(o) == o # <<>>
Get(o) == o[1]

(***************************************************************************)
(* Link Store: table user_connections, one row per user_id (UNIQUE), read  *)
(* and written through the row-level-security policies of the migration.   *)
(***************************************************************************)
Columns == {"wallet_address", "farcaster_fid", "farcaster_username",
            "farcaster_display_name", "farcaster_pfp_url", "farcaster_signer_uuid"}
SocialColumns == Columns \ {"wallet_address"}

EmptyRow == [c \in Columns |-> None]

\* policy "Users can view their own connections": USING (auth.uid() = user_id)
Visible(ls, uid) == {u \in DOMAIN ls : u = uid}

\* policies "create / update their own connections"
MayWrite(uid, target) == uid # NoUser /\ uid = target

\* .upsert(cols, { onConflict: 'user_id' }): the columns given are written,
\* the others keep their value (NULL in a new row)
UpsertRow(ls, target, cols) ==
    LET old == IF target \in DOMAIN ls THEN ls[target] ELSE EmptyRow
    IN  [u \in DOMAIN ls \cup {target} |->
           IF u = target
           THEN [c \in Columns |-> IF c \in DOMAIN cols THEN cols[c] ELSE old[c]]
           ELSE ls[u]]

\* an update that removes the row it matched
UpdateRow_DeletesRow(ls, target, cols) ==
    [u \in DOMAIN ls \ {target} |-> ls[u]]

\* .update(cols).eq('user_id', target)
UpdateRow(ls, target, cols) ==
    IF target \in DOMAIN ls THEN UpsertRow(ls, target, cols) ELSE ls

\* .maybeSingle(): the row when exactly one matches, otherwise data is null
MaybeSingle(ls, matching) ==
    IF Cardinality(matching) = 1
    THEN LET u == CHOOSE x \in matching : TRUE
         IN  Some([user_id |-> u, row |-> ls[u]])
    ELSE None

\* src/unnamed/part_003:64-68: the four spellings of the address the filter accepts
LookupSpellings(address) ==
    {Join(NormalizedAddress(address)), Join(AddressWithoutPrefix(address)),
     Join(ToLowerCase(address)), Join(address)}

\* the strings derived from each address of the model; `@@ <<>>` leaves the
\* table as it is and has TLC compute it once
AddressText ==
    [a \in Addresses |->
        [raw |-> Join(AddressString(a)),
         normalizedAddress |-> Join(NormalizedAddress(AddressString(a))),
         spellings |-> LookupSpellings(AddressString(a)),
         walletEmail |-> Join(WalletEmail(AddressString(a)))]] @@ <<>>

WalletPasswordText ==
    [x \in Addresses \X WalletSignatures |->
        Join(WalletPassword(AddressString(x[1]), SignatureString(x[2])))] @@ <<>>

ExistingConnection(ls, uid, a) ==
    MaybeSingle(ls, {u \in Visible(ls, uid) :
                        /\ IsSome(ls[u].wallet_address)
                        /\ Get(ls[u].wallet_address) \in AddressText[a].spellings})

\* .select('*').eq('user_id', id).maybeSingle()
ConnectionOf(ls, uid, id) == MaybeSingle(ls, {u \in Visible(ls, uid) : u = id})

(***************************************************************************)
(* Session Store: supabase.auth behind useAuth.signIn / signUp.            *)
(***************************************************************************)
PasswordMatches(acc, email, password) ==
    email \in DOMAIN acc /\ acc[email] = password

AlreadyRegistered == "User already registered"
OtherError == "Service unavailable"
NoError == ""

\* useAuth.signUp: the error for an email, "" when the account is created
SignUpError(acc, email, fault) ==
    IF fault THEN OtherError
    ELSE IF email \in DOMAIN acc THEN AlreadyRegistered ELSE NoError

Register(acc, email, password) ==
    [e \in DOMAIN acc \cup {email} |-> IF e = email THEN password ELSE acc[e]]

\* a transient failure may be injected while the budget lasts
MayFail(fault) == fault => faults < MaxFaults
Count(fault) == IF fault THEN faults + 1 ELSE faults

(***************************************************************************)
(* Sign-in payloads of the Farcaster relay.  A payload is named by its     *)
(* shape and contents; Res builds the object handed to handleSuccess, with *)
(* None for an absent (undefined) property.                                *)
(***************************************************************************)
Shapes == {"flat", "metadata"}
Payloads ==
    {p \in [shape : Shapes, fid : Fids, username : Usernames,
            displayName : {None} \cup {Some(d) : d \in DisplayNames},
            pfpUrl : {None}, sig : RelaySignatures] :
        /\ p.displayName = None <=> p.shape = "flat"
        /\ p.shape = "flat" <=> p.sig = 2}
NoPayload == [shape |-> "none", fid |-> 0, username |-> <<>>,
              displayName |-> None, pfpUrl |-> None, sig |-> 0]

NoFields == [fid |-> None, username |-> None, displayName |-> None,
             pfpUrl |-> None, signature |-> None,
             siweMessageSignature |-> None, messageSignature |-> None]

Fields(p, withSignature) ==
    [NoFields EXCEPT !.fid = Some(p.fid), !.username = Some(p.username),
                     !.displayName = p.displayName, !.pfpUrl = p.pfpUrl,
                     !.signature = IF withSignature /\ p.sig # 0
                                   THEN Some(RelaySignatureString(p.sig)) ELSE None]

Res(p) ==
    LET top == [fid |-> None, username |-> None, displayName |-> None,
                pfpUrl |-> None, signature |-> None,
                metadata |-> None, signatureParams |-> None]
        signature == IF p.sig # 0 THEN Some(RelaySignatureString(p.sig)) ELSE None
    IN  CASE p.shape = "flat" ->
               [top EXCEPT !.fid = Some(p.fid), !.username = Some(p.username),
                           !.displayName = p.displayName, !.pfpUrl = p.pfpUrl,
                           !.signature = signature]
          [] p.shape = "metadata" ->
               [top EXCEPT !.metadata = Some(Fields(p, FALSE)), !.signature = signature]
          [] p.shape = "signatureParams" ->
               [top EXCEPT !.signatureParams = Some(Fields(p, TRUE))]
          [] OTHER -> top

\* JavaScript truthiness and `a || b` on optional numbers and strings
TruthyNumber(o) == IsSome(o) /\ Get(o) # 0
TruthyString(o) == IsSome(o) /\ Get(o) # <<>>
OrNumber(a, b) == IF TruthyNumber(a) THEN a ELSE b
OrString(a, b) == IF TruthyString(a) THEN a ELSE b

\* obj?.field
Opt(obj, field) == IF IsSome(obj) THEN Get(obj)[field] ELSE None

\* src/src/components/FarcasterSignIn.tsx:41-81
Extract(res) ==
    IF TruthyNumber(res.fid) /\ TruthyString(res.username)
    THEN [fid |-> res.fid, username |-> res.username, displayName |-> res.displayName,
          pfpUrl |-> res.pfpUrl, signature |-> res.signature]
    ELSE IF IsSome(res.metadata)
    THEN LET meta == Get(res.metadata)
         IN  [fid |-> meta.fid, username |-> meta.username,
              displayName |-> meta.displayName, pfpUrl |-> meta.pfpUrl,
              signature |-> OrString(res.signature, meta.signature)]
    ELSE IF IsSome(res.signatureParams)
    THEN LET params == Get(res.signatureParams)
         IN  [fid |-> OrNumber(params.fid, res.fid),
              username |-> OrString(params.username, res.username),
              displayName |-> OrString(params.displayName, res.displayName),
              pfpUrl |-> OrString(params.pfpUrl, res.pfpUrl),
              signature |-> OrString(res.signature,
                              OrString(params.signature,
                                OrString(params.siweMessageSignature,
                                         params.messageSignature)))]
    ELSE [fid |-> OrNumber(res.fid, OrNumber(Opt(res.metadata, "fid"),
                                              Opt(res.signatureParams, "fid"))),
          username |-> OrString(res.username, OrString(Opt(res.metadata, "username"),
                                                       Opt(res.signatureParams, "username"))),
          displayName |-> OrString(res.displayName,
                            OrString(Opt(res.metadata, "displayName"),
                                     Opt(res.signatureParams, "displayName"))),
          pfpUrl |-> OrString(res.pfpUrl, OrString(Opt(res.metadata, "pfpUrl"),
                                                   Opt(res.signatureParams, "pfpUrl"))),
          signature |-> OrString(res.signature,
                          OrString(Opt(res.metadata, "signature"),
                            OrString(Opt(res.signatureParams, "signature"),
                              OrString(Opt(res.signatureParams, "siweMessageSignature"),
                                       Opt(res.signatureParams, "messageSignature")))))]

\* src/src/components/FarcasterSignIn.tsx:86: the payload is declared invalid
MissingUserInformation(res) ==
    ~(TruthyNumber(Extract(res).fid) /\ TruthyString(Extract(res).username))

\* src/src/components/FarcasterSignIn.tsx:345-347, on the object itself
ValidUserData(res) ==
    LET fid == OrNumber(res.fid, OrNumber(Opt(res.metadata, "fid"),
                                          Opt(res.signatureParams, "fid")))
        username == OrString(res.username,
                      OrString(Opt(res.metadata, "username"),
                               Opt(res.signatureParams, "username")))
    IN  TruthyNumber(fid) /\ TruthyString(username)

\* src/src/components/FarcasterSignIn.tsx:342-348
hasValidUserData(data) ==
    /\ data # NoPayload
    /\ ValidUserData(Res(data))

\* Objects the relay may hand over: fid and username each present or absent
\* at the top level, and metadata and signatureParams each absent or an
\* object with fid and username present or absent.
PartialFields ==
    {[NoFields EXCEPT !.fid = f, !.username = u] :
        f \in {None, Some(1)}, u \in {None} \cup {Some(n) : n \in Usernames}}
AnyRes ==
    [fid : {None, Some(1)}, username : {None} \cup {Some(n) : n \in Usernames},
     displayName : {None}, pfpUrl : {None}, signature : {None},
     metadata : {None} \cup {Some(m) : m \in PartialFields},
     signatureParams : {None} \cup {Some(m) : m \in PartialFields}]


\* src/src/components/FarcasterSignIn.tsx:236-242
FarcasterColumns(p) ==
    LET e == Extract(Res(p))
    IN  [c \in SocialColumns \ {"farcaster_signer_uuid"} |->
           CASE c = "farcaster_fid" -> e.fid
             [] c = "farcaster_username" -> Some(Join(Get(e.username)))
             [] c = "farcaster_display_name" ->
                  Some(Join(Get(OrString(e.displayName, e.username))))
             [] c = "farcaster_pfp_url" ->
                  Some(Join(Get(OrString(e.pfpUrl, Some(<<>>)))))]

\* what handleSuccess derives from each payload of the model, computed once
PayloadText ==
    [p \in Payloads |->
        LET e == Extract(Res(p))
            signature == IF TruthyString(e.signature) THEN Get(e.signature) ELSE <<>>
            alt == AltPasswords(Get(e.fid), Get(e.username), signature)
        IN  [missing |-> MissingUserInformation(Res(p)),
             valid |-> hasValidUserData(p),
             username |-> Join(Get(e.username)),
             email |-> Join(FarcasterEmail(Get(e.fid))),
             password |-> Join(FarcasterPassword(Get(e.fid), Get(e.username))),
             altPasswords |-> <<>> \o [n \in 1..Len(alt) |-> Join(alt[n])],
             columns |-> FarcasterColumns(p) @@ <<>>]] @@ <<>>

(***************************************************************************)
(* FarcasterSignIn: the dialog's React state.  `cur` holds the state after *)
(* the updates queued so far, `rd` the values the last committed render    *)
(* captured: every callback and effect reads `rd`, never `cur`.            *)
(***************************************************************************)
Threads == 1..MaxHS

\* what useSignIn reports of the relay channel: no channel yet is token 0 and
\* no url; error is "401" while isError holds with a message that has 401 in it
NoError401 == "none"
Error401 == "401"
ChannelTokens == {1, 2}
NoChannel == 0

DlgState ==
    [open |-> FALSE, hasStarted |-> FALSE, hasProcessedSuccess |-> FALSE,
     isProcessing |-> FALSE, capturedSuccessData |-> NoPayload,
     data |-> NoPayload, isPolling |-> FALSE, user |-> NoUser,
     isConnected |-> FALSE, error |-> NoError401, channelToken |-> NoChannel,
     channelErrorCount |-> 0, lastChannelToken |-> NoChannel]

\* the timers of the component, none of which is ever cleared by a cleanup:
\* the connect poll with its 2 s timeout (one call of startSignIn between
\* them), and the two timeouts of a channel recreation
Timers == {"start", "recreateConnect", "recreateStart"}

\* kept for the statements about the channel: the 401 errors the relay
\* reported on the current channel, the recreations of the session, whether
\* one was made before the third error, the reconnects since the transport
\* dropped, whether an error was put before the user, the timers that were
\* pending when the dialog closed, and the calls those made while it was closed
ChannelGhost ==
    [errors |-> 0, recreations |-> 0, earlyRecreation |-> FALSE,
     dropped |-> FALSE, reconnects |-> 0,
     errorShown |-> FALSE, stale |-> {}, lateCalls |-> {}]

DlgIdle ==
    [cur |-> DlgState, rd |-> DlgState, effects |-> {},
     onSuccessPending |-> FALSE, checkInterval |-> FALSE,
     timers |-> {}, g |-> ChannelGhost]

HsIdle ==
    [pc |-> "idle", res |-> NoPayload, i |-> 1, authUser |-> NoUser,
     outcome |-> "none", error |-> NoError, reset |-> "none",
     calls |-> <<>>, writes |-> 0, dispatched |-> {},
     accountsBefore |-> <<>>, linksBefore |-> <<>>, sessionBefore |-> NoUser]

InFlight(h) == {t \in Threads : h[t].pc \notin {"idle", "done"}}
Quiet == wa.pc \in {"idle", "done"} /\ InFlight(hs) = {}

\* the state the next render will see, with AuthProvider's user
Current == [dlg.cur EXCEPT !.user = user]

(***************************************************************************)
(* handleWalletAuth (the wallet buttons of the sign-in page).  One action  *)
(* per await of the handler: the awaited call and the synchronous code     *)
(* that follows it up to the next await.                                   *)
(***************************************************************************)
NoAddress == [k |-> 0, form |-> "lower"]
NoSignature == [signer |-> 0, form |-> "lower", last |-> "e"]

WaIdle ==
    [pc |-> "idle", address |-> NoAddress, signature |-> NoSignature,
     existingConnection |-> None, authUser |-> NoUser,
     signedInWithFarcaster |-> FALSE, i |-> 1, currentConnection |-> None,
     outcome |-> "none", error |-> NoError,
     calls |-> <<>>, writes |-> <<>>, dispatched |-> {},
     accountsBefore |-> <<>>, linksBefore |-> <<>>, sessionBefore |-> NoUser]

\* the stores as an attempt finds them, kept for the statements about it
Begin(idle) ==
    [idle EXCEPT !.accountsBefore = accounts, !.linksBefore = links,
                 !.sessionBefore = session]

Call(op, email, password, ok) ==
    [op |-> op, email |-> email, password |-> password, ok |-> ok]

\* JavaScript truthiness of a nullable integer column
Truthy(fid) == IsSome(fid) /\ Get(fid) # 0

\* `${value}` of a nullable text column
Text(o) == IF IsSome(o) THEN Get(o) ELSE "null"

HasFid(conn) == IsSome(conn) /\ Truthy(Get(conn).row.farcaster_fid)

\* src/unnamed/part_003:122-125
SignInWithFarcasterError(w) ==
    "Your wallet is linked to Farcaster account @"
      \o Text(Get(w.existingConnection).row.farcaster_username)
      \o ", but the password cannot be verified. Please sign in with Farcaster "
      \o "instead using the Farcaster sign-in button."
RejectedError == "User rejected the request"

\* the catch block of src/unnamed/part_003:207-215
WaThrow(w, message) == [w EXCEPT !.pc = "done", !.outcome = "failed", !.error = message]

\* src/unnamed/part_003:201-206
WaFinish(w) == [w EXCEPT !.pc = "done", !.outcome = "verified"]

\* src/unnamed/part_003:130-132: the wallet-identity branch is entered
EntersWalletBranch(w) == w.authUser = NoUser /\ ~HasFid(w.existingConnection)

\* src/unnamed/part_003:161-162: authUser decides whether the Link Record is written
WaAfterAuth(w) ==
    IF w.authUser # NoUser THEN [w EXCEPT !.pc = "readCurrent"] ELSE WaFinish(w)

\* src/unnamed/part_003:30-51: the page shows the buttons while `user` is null;
\* wallet.connect runs with that render's authUser (null) and saves nothing
handleWalletAuth_Start ==
    /\ Quiet
    /\ ~dlg.cur.open
    /\ user = NoUser
    /\ \E provider \in BOOLEAN :
          wa' = IF provider THEN [Begin(WaIdle) EXCEPT !.pc = "requestAddress"]
                ELSE [Begin(WaIdle) EXCEPT !.pc = "done", !.outcome = "not_found"]
    /\ hs' = [t \in Threads |-> HsIdle]
    /\ UNCHANGED <<probe, accounts, links, session, user, faults, dlg>>

\* a wallet.connect that saves the address for the user of the session before
\* the account prompt of the page is answered
handleWalletAuth_RequestAddress_SavesFirst ==
    /\ wa.pc = "requestAddress"
    /\ \E a \in Addresses, granted \in BOOLEAN :
          /\ wa' = IF granted THEN [wa EXCEPT !.pc = "personalSign", !.address = a]
                   ELSE WaThrow(wa, RejectedError)
          /\ links' = IF session = NoUser THEN links
                      ELSE UpsertRow(links, session,
                                     [c \in {"wallet_address"} |-> Some(AddressText[a].raw)])
    /\ UNCHANGED <<probe, accounts, session, user, faults, hs, dlg>>

\* src/unnamed/part_003:53 and src/src/lib/walletAuth.ts:29-34
handleWalletAuth_RequestAddress ==
    /\ wa.pc = "requestAddress"
    /\ \E a \in Addresses, granted \in BOOLEAN :
          wa' = IF granted THEN [wa EXCEPT !.pc = "personalSign", !.address = a]
                ELSE WaThrow(wa, RejectedError)
    /\ UNCHANGED <<probe, accounts, links, session, user, faults, hs, dlg>>

\* src/unnamed/part_003:54-55: the provider signs with the key of the address,
\* declines, or (a provider that does not hold the key) returns something else
handleWalletAuth_PersonalSign ==
    /\ wa.pc = "personalSign"
    /\ \E granted \in BOOLEAN,
          sg \in {GenuineSignature(wa.address)} \cup ForgedSignatures(wa.address) :
          wa' = IF granted THEN [wa EXCEPT !.pc = "lookup", !.signature = sg]
                ELSE WaThrow(wa, RejectedError)
    /\ UNCHANGED <<probe, accounts, links, session, user, faults, hs, dlg>>

\* src/unnamed/part_003:62-72 and 130-132
handleWalletAuth_Lookup ==
    /\ wa.pc = "lookup"
    /\ \E fault \in BOOLEAN :
          /\ MayFail(fault)
          /\ faults' = Count(fault)
          /\ LET found == IF fault THEN None
                          ELSE ExistingConnection(links, session, wa.address)
                 w == [wa EXCEPT !.existingConnection = found]
             IN  wa' = IF HasFid(found) THEN [w EXCEPT !.pc = "altSignIn", !.i = 1]
                       ELSE IF EntersWalletBranch(w) THEN [w EXCEPT !.pc = "walletSignIn"]
                       ELSE WaAfterAuth(w)
    /\ UNCHANGED <<probe, accounts, links, session, user, hs, dlg>>

\* a cross-link loop that falls through to the wallet identity
CrossLinkExhausted_FallsThrough(w) == [w EXCEPT !.pc = "walletSignIn"]

\* src/unnamed/part_003:115-127: no variant signed in
CrossLinkExhausted(w) == WaThrow(w, SignInWithFarcasterError(w))

LinkedEmail(w) == FidText[Get(Get(w.existingConnection).row.farcaster_fid)].email
LinkedPasswords(w) ==
    LinkedAltPasswords(Get(Get(w.existingConnection).row.farcaster_fid),
                       Text(Get(w.existingConnection).row.farcaster_username))

\* src/unnamed/part_003:88-92 and 115-127: one turn of the loop over altPasswords
handleWalletAuth_AltSignIn ==
    /\ wa.pc = "altSignIn"
    /\ \E fault \in BOOLEAN :
          LET email == LinkedEmail(wa)
              password == LinkedPasswords(wa)[wa.i]
              match == PasswordMatches(accounts, email, password)
              ok == match /\ ~fault
              w == [wa EXCEPT !.calls = Append(@, Call("signIn", email, password, ok))]
          IN  /\ fault => match
              /\ MayFail(fault)
              /\ faults' = Count(fault)
              /\ session' = IF ok THEN email ELSE session
              /\ wa' = IF ok THEN [w EXCEPT !.pc = "altGetUser", !.signedInWithFarcaster = TRUE]
                       ELSE IF wa.i < Len(LinkedPasswords(wa)) THEN [w EXCEPT !.i = @ + 1]
                       ELSE CrossLinkExhausted(w)
    /\ UNCHANGED <<probe, accounts, links, user, hs, dlg>>

\* src/unnamed/part_003:93-96
handleWalletAuth_AltGetUser ==
    /\ wa.pc = "altGetUser"
    /\ \E fault \in BOOLEAN :
          /\ fault => session # NoUser
          /\ MayFail(fault)
          /\ faults' = Count(fault)
          /\ LET w == [wa EXCEPT !.authUser = IF fault THEN NoUser ELSE session]
             IN  wa' = IF w.authUser # NoUser THEN [w EXCEPT !.pc = "altUpdate"]
                       ELSE WaAfterAuth(w)
    /\ UNCHANGED <<probe, accounts, links, session, user, hs, dlg>>

\* src/unnamed/part_003:97-111
handleWalletAuth_AltUpdate ==
    /\ wa.pc = "altUpdate"
    /\ \E fault \in BOOLEAN :
          LET cols == [c \in {"wallet_address"} |->
                          Some(AddressText[wa.address].normalizedAddress)]
          IN  /\ MayFail(fault)
              /\ faults' = Count(fault)
              /\ links' = IF ~fault /\ MayWrite(session, wa.authUser)
                          THEN UpdateRow(links, wa.authUser, cols) ELSE links
              /\ wa' = WaAfterAuth(
                          IF fault THEN wa
                          ELSE [wa EXCEPT !.writes = Append(@, "update"),
                                          !.dispatched = @ \cup {"wallet-connected",
                                                                 "farcaster-connected"}])
    /\ UNCHANGED <<probe, accounts, session, user, hs, dlg>>

WaEmail(w) == AddressText[w.address].walletEmail
WaPassword(w) == WalletPasswordText[<<w.address, w.signature>>]

\* src/unnamed/part_003:133-142
handleWalletAuth_SignIn ==
    /\ wa.pc = "walletSignIn"
    /\ \E fault \in BOOLEAN :
          LET match == PasswordMatches(accounts, WaEmail(wa), WaPassword(wa))
              ok == match /\ ~fault
              w == [wa EXCEPT !.calls = Append(@, Call("signIn", WaEmail(wa), WaPassword(wa), ok))]
          IN  /\ fault => match
              /\ MayFail(fault)
              /\ faults' = Count(fault)
              /\ session' = IF ok THEN WaEmail(wa) ELSE session
              /\ wa' = [w EXCEPT !.pc = IF ok THEN "getUser" ELSE "walletSignUp"]
    /\ UNCHANGED <<probe, accounts, links, user, hs, dlg>>

\* a sign-up that gives up when the identity is registered already
handleWalletAuth_SignUp_NoRetry ==
    /\ wa.pc = "walletSignUp"
    /\ \E fault \in BOOLEAN :
          LET err == SignUpError(accounts, WaEmail(wa), fault)
              w == [wa EXCEPT !.calls = Append(@, Call("signUp", WaEmail(wa), WaPassword(wa),
                                                        err = NoError))]
          IN  /\ MayFail(fault)
              /\ faults' = Count(fault)
              /\ accounts' = IF err = NoError
                             THEN Register(accounts, WaEmail(wa), WaPassword(wa)) ELSE accounts
              /\ session' = IF err = NoError THEN WaEmail(wa) ELSE session
              /\ wa' = IF err = NoError THEN [w EXCEPT !.pc = "getUser"]
                       ELSE WaThrow(w, err)
    /\ UNCHANGED <<probe, links, user, hs, dlg>>

\* src/unnamed/part_003:143-149
handleWalletAuth_SignUp ==
    /\ wa.pc = "walletSignUp"
    /\ \E fault \in BOOLEAN :
          LET err == SignUpError(accounts, WaEmail(wa), fault)
              w == [wa EXCEPT !.calls = Append(@, Call("signUp", WaEmail(wa), WaPassword(wa),
                                                        err = NoError))]
          IN  /\ MayFail(fault)
              /\ faults' = Count(fault)
              /\ accounts' = IF err = NoError
                             THEN Register(accounts, WaEmail(wa), WaPassword(wa)) ELSE accounts
              /\ session' = IF err = NoError THEN WaEmail(wa) ELSE session
              /\ wa' = IF err = NoError THEN [w EXCEPT !.pc = "getUser"]
                       ELSE IF err = AlreadyRegistered THEN [w EXCEPT !.pc = "walletRetry"]
                       ELSE WaThrow(w, err)
    /\ UNCHANGED <<probe, links, user, hs, dlg>>

InvalidCredentials == "Invalid login credentials"

\* src/unnamed/part_003:149-152
handleWalletAuth_Retry ==
    /\ wa.pc = "walletRetry"
    /\ \E fault \in BOOLEAN :
          LET match == PasswordMatches(accounts, WaEmail(wa), WaPassword(wa))
              ok == match /\ ~fault
              w == [wa EXCEPT !.calls = Append(@, Call("signIn", WaEmail(wa), WaPassword(wa), ok))]
          IN  /\ fault => match
              /\ MayFail(fault)
              /\ faults' = Count(fault)
              /\ session' = IF ok THEN WaEmail(wa) ELSE session
              /\ wa' = IF ok THEN [w EXCEPT !.pc = "getUser"]
                       ELSE WaThrow(w, IF fault THEN OtherError ELSE InvalidCredentials)
    /\ UNCHANGED <<probe, accounts, links, user, hs, dlg>>

\* src/unnamed/part_003:155-162
handleWalletAuth_GetUser ==
    /\ wa.pc = "getUser"
    /\ \E fault \in BOOLEAN :
          /\ fault => session # NoUser
          /\ MayFail(fault)
          /\ faults' = Count(fault)
          /\ wa' = WaAfterAuth([wa EXCEPT !.authUser = IF fault THEN NoUser ELSE session])
    /\ UNCHANGED <<probe, accounts, links, session, user, hs, dlg>>

\* src/unnamed/part_003:163-168
handleWalletAuth_ReadCurrent ==
    /\ wa.pc = "readCurrent"
    /\ \E fault \in BOOLEAN :
          /\ fault => IsSome(ConnectionOf(links, session, wa.authUser))
          /\ MayFail(fault)
          /\ faults' = Count(fault)
          /\ wa' = [wa EXCEPT !.pc = "upsert",
                              !.currentConnection =
                                  IF fault THEN None
                                  ELSE ConnectionOf(links, session, wa.authUser)]
    /\ UNCHANGED <<probe, accounts, links, session, user, hs, dlg>>

\* an upsert that writes the wallet address over a fresh record
UpdateData_WalletOnlyRecord(w) ==
    [c \in Columns |->
        IF c = "wallet_address" THEN Some(AddressText[w.address].normalizedAddress)
        ELSE None]

\* an upsert that stores the address as the provider reported it
UpdateData_RawAddress(w) ==
    [c \in {"wallet_address"} |-> Some(AddressText[w.address].raw)]

\* src/unnamed/part_003:170-183
UpdateData(w) ==
    LET address == [c \in {"wallet_address"} |->
                       Some(AddressText[w.address].normalizedAddress)]
    IN  IF HasFid(w.currentConnection)
        THEN [c \in Columns |->
                 IF c = "wallet_address" THEN address[c]
                 ELSE Get(w.currentConnection).row[c]]
        ELSE address

\* src/unnamed/part_003:185-206
handleWalletAuth_Upsert ==
    /\ wa.pc = "upsert"
    /\ \E fault \in BOOLEAN :
          LET dbError == fault \/ ~MayWrite(session, wa.authUser)
          IN  /\ MayFail(fault)
              /\ faults' = Count(fault)
              /\ links' = IF dbError THEN links
                          ELSE UpsertRow(links, wa.authUser, UpdateData(wa))
              /\ wa' = WaFinish(
                          IF dbError THEN wa
                          ELSE [wa EXCEPT !.writes = Append(@, "upsert"),
                                          !.dispatched =
                                              @ \cup {"wallet-connected"}
                                                \cup (IF HasFid(wa.currentConnection)
                                                      THEN {"farcaster-connected"} ELSE {})])
    /\ UNCHANGED <<probe, accounts, session, user, hs, dlg>>

handleWalletAuth ==
    \/ handleWalletAuth_Start
    \/ handleWalletAuth_RequestAddress
    \/ handleWalletAuth_PersonalSign
    \/ handleWalletAuth_Lookup
    \/ handleWalletAuth_AltSignIn
    \/ handleWalletAuth_AltGetUser
    \/ handleWalletAuth_AltUpdate
    \/ handleWalletAuth_SignIn
    \/ handleWalletAuth_SignUp
    \/ handleWalletAuth_Retry
    \/ handleWalletAuth_GetUser
    \/ handleWalletAuth_ReadCurrent
    \/ handleWalletAuth_Upsert


(***************************************************************************)
(* FarcasterSignIn: deliveries of the sign-in payload and the effects.      *)
(***************************************************************************)
\* src/src/components/FarcasterSignIn.tsx:32-97: handleSuccess up to its first
\* await, called with the closure of the last render: the guard reads the
\* hasProcessedSuccess of that render.  st = [d, h, ok] is the dialog, the
\* invocations, and whether every call so far found a slot of the model.
Started(d, res) ==
    ~d.rd.hasProcessedSuccess /\ ~PayloadText[res].missing

HasFreeSlot(h) == \E t \in Threads : h[t].pc = "idle"
FreeSlot(h) ==
    CHOOSE t \in Threads : h[t].pc = "idle" /\ \A u \in Threads : u < t => h[u].pc # "idle"

handleSuccess(st, res) ==
    IF ~Started(st.d, res) THEN st
    ELSE IF ~HasFreeSlot(st.h) THEN [st EXCEPT !.ok = FALSE]
    ELSE [st EXCEPT !.d.cur.hasProcessedSuccess = TRUE,
                    !.d.cur.isProcessing = TRUE,
                    !.h[FreeSlot(st.h)] = [Begin(HsIdle) EXCEPT !.pc = "signIn", !.res = res]]

\* src/unnamed/part_003:218-220 (the page shows the button while `user` is
\* null); the dialog is opened again until a sign-in has been delivered
handleFarcasterConnect ==
    /\ \A t \in Threads : hs[t].pc = "idle"
    /\ user = NoUser
    /\ ~dlg.cur.open
    /\ dlg.effects = {}
    /\ dlg' = [dlg EXCEPT !.cur.open = TRUE, !.g.recreations = 0]
    /\ UNCHANGED <<probe, accounts, links, session, user, faults, wa, hs>>

\* the user dismisses the dialog: onOpenChange(false)
closeDialog ==
    /\ dlg.cur.open
    /\ dlg' = [dlg EXCEPT !.cur.open = FALSE, !.g.stale = dlg.timers]
    /\ UNCHANGED <<probe, accounts, links, session, user, faults, wa, hs>>

\* the dependency lists of the effects (FarcasterSignIn.tsx:340, 364, 395, 403);
\* handleSuccess is a new function when hasProcessedSuccess or useAuth's
\* signIn/signUp change (line 278)
Deps(e) ==
    CASE e = "start" -> {"open", "hasStarted", "isConnected"}
      [] e = "reconnect" -> {"isPolling", "isConnected", "channelToken"}
      [] e = "token" -> {"channelToken", "lastChannelToken"}
      [] e = "channelError" -> {"error", "channelToken", "hasProcessedSuccess",
                                "capturedSuccessData", "channelErrorCount"}
      [] e = "fallback" -> {"isPolling", "data", "hasProcessedSuccess", "open", "user"}
      [] e = "capture" -> {"data", "capturedSuccessData", "isProcessing",
                           "hasProcessedSuccess", "user"}
      [] e = "captured" -> {"capturedSuccessData", "isProcessing",
                            "hasProcessedSuccess", "user"}
Effects == {"start", "fallback", "capture", "captured", "reconnect", "token",
            "channelError"}

\* src/src/components/FarcasterSignIn.tsx:608-615: the error view, with the
\* message of the error and the button "Try Again"
ErrorView(state) == state.open /\ state.error # NoError401

\* React commits a render: the closures now see the current state, and the
\* effects whose dependencies changed are queued
Render ==
    /\ dlg.effects = {}
    /\ dlg.rd # Current
    /\ dlg' = [dlg EXCEPT !.rd = Current,
                          !.effects = {e \in Effects :
                                          \E f \in Deps(e) : dlg.rd[f] # Current[f]},
                          !.g.errorShown = @ \/ ErrorView(Current)]
    /\ UNCHANGED <<probe, accounts, links, session, user, faults, wa, hs>>

\* connect() of useSignIn opens a channel, whose token is not the last one
\* and which has no payload and no error count yet
NextToken(token) == CHOOSE t \in ChannelTokens : t # token
Connect(d) ==
    [d EXCEPT !.cur.channelToken = NextToken(@), !.cur.data = NoPayload,
              !.onSuccessPending = FALSE, !.g.errors = 0]

\* startSignIn() of useSignIn starts the polling of the channel
StartSignIn(d) == [d EXCEPT !.cur.isPolling = TRUE]

\* a timer is set; setTimeout and setInterval of this component are never
\* cleared when the dialog closes
SetTimer(d, timer) == [d EXCEPT !.timers = @ \cup {timer}]

\* src/src/components/FarcasterSignIn.tsx:304-340: the interval and its 2 s
\* timeout read the isConnected of this render and call startSignIn once
\* between them
Effect_start(st) ==
    IF st.d.rd.open /\ ~st.d.rd.hasStarted
    THEN [st EXCEPT !.d = SetTimer(Connect(
                        [st.d EXCEPT !.cur.hasStarted = TRUE,
                                     !.cur.hasProcessedSuccess = FALSE,
                                     !.cur.capturedSuccessData = NoPayload]), "start")]
    ELSE IF ~st.d.rd.open /\ st.d.rd.hasStarted
    THEN [st EXCEPT !.d.cur.hasStarted = FALSE, !.d.cur.hasProcessedSuccess = FALSE,
                    !.d.cur.capturedSuccessData = NoPayload]
    ELSE st

\* src/src/components/FarcasterSignIn.tsx:350-364: the previous interval is
\* cleared and a new one is set when the render was polling
Effect_fallback(st) ==
    [st EXCEPT !.d.checkInterval =
                   st.d.rd.isPolling /\ ~st.d.rd.hasProcessedSuccess /\ st.d.rd.open]

\* src/src/components/FarcasterSignIn.tsx:379-395
Effect_capture(st) ==
    IF /\ st.d.rd.data # NoPayload
       /\ PayloadText[st.d.rd.data].valid
       /\ st.d.rd.capturedSuccessData = NoPayload
    THEN IF ~st.d.rd.isProcessing /\ ~st.d.rd.hasProcessedSuccess
         THEN handleSuccess([st EXCEPT !.d.cur.capturedSuccessData = st.d.rd.data],
                            st.d.rd.data)
         ELSE [st EXCEPT !.d.cur.capturedSuccessData = st.d.rd.data]
    ELSE st

\* src/src/components/FarcasterSignIn.tsx:397-403
Effect_captured(st) ==
    IF /\ st.d.rd.capturedSuccessData # NoPayload
       /\ ~st.d.rd.isProcessing /\ ~st.d.rd.hasProcessedSuccess
    THEN handleSuccess(st, st.d.rd.capturedSuccessData)
    ELSE st

\* reconnect() of useSignIn, counted for a transport that dropped while polling
Reconnect(d) ==
    [d EXCEPT !.g.reconnects = IF d.g.dropped THEN Min(@ + 1, 2) ELSE @]

\* src/src/components/FarcasterSignIn.tsx:405-411
Effect_reconnect(st) ==
    IF st.d.rd.isPolling /\ ~st.d.rd.isConnected /\ st.d.rd.channelToken # NoChannel
    THEN [st EXCEPT !.d = Reconnect(st.d)]
    ELSE st

\* src/src/components/FarcasterSignIn.tsx:413-419
Effect_token(st) ==
    IF st.d.rd.channelToken # NoChannel /\ st.d.rd.channelToken # st.d.rd.lastChannelToken
    THEN [st EXCEPT !.d.cur.lastChannelToken = st.d.rd.channelToken,
                    !.d.cur.channelErrorCount = 0]
    ELSE st

\* src/src/components/FarcasterSignIn.tsx:427-437: the channel is to be made
\* again (url is there whenever a channel is)
Recreate(d) ==
    SetTimer([d EXCEPT !.cur.hasStarted = FALSE, !.cur.channelErrorCount = 0,
                       !.g.recreations = Min(@ + 1, MaxRecreations + 1),
                       !.g.earlyRecreation = @ \/ d.g.errors < 3],
             "recreateConnect")

\* src/src/components/FarcasterSignIn.tsx:421-439
Effect_channelError(st) ==
    IF /\ st.d.rd.error = Error401
       /\ st.d.rd.channelToken # NoChannel
       /\ ~st.d.rd.hasProcessedSuccess
       /\ st.d.rd.capturedSuccessData = NoPayload
    THEN LET newErrorCount == st.d.rd.channelErrorCount + 1
         IN  IF newErrorCount >= 3
             THEN [st EXCEPT !.d = Recreate(st.d)]
             ELSE [st EXCEPT !.d.cur.channelErrorCount = newErrorCount]
    ELSE st

\* React runs the queued effects of a commit together, in the order of their
\* declaration
FlushEffects ==
    /\ dlg.effects # {}
    /\ \E st0 \in {[d |-> [dlg EXCEPT !.effects = {}], h |-> hs, ok |-> TRUE]} :
       \E st1 \in {IF "start" \in dlg.effects THEN Effect_start(st0) ELSE st0} :
       \E st2 \in {IF "fallback" \in dlg.effects THEN Effect_fallback(st1) ELSE st1} :
       \E st3 \in {IF "capture" \in dlg.effects THEN Effect_capture(st2) ELSE st2} :
       \E st4 \in {IF "captured" \in dlg.effects THEN Effect_captured(st3) ELSE st3} :
       \E st5 \in {IF "reconnect" \in dlg.effects THEN Effect_reconnect(st4) ELSE st4} :
       \E st6 \in {IF "token" \in dlg.effects THEN Effect_token(st5) ELSE st5} :
       \E st7 \in {IF "channelError" \in dlg.effects
                   THEN Effect_channelError(st6) ELSE st6} :
          /\ st7.ok
          /\ dlg' = st7.d
          /\ hs' = st7.h
    /\ UNCHANGED <<probe, accounts, links, session, user, faults, wa>>

\* timers and events of the channel are tasks of their own: React has
\* committed the render and run the effects of the task before
Settled == dlg.effects = {} /\ dlg.rd = Current

\* a timeout, an answer of the relay and a click may also come between the
\* effects of one render and the next render
Flushed == dlg.effects = {}

\* a call made by a timer that was pending when the dialog closed, or by a
\* timer such a timer set, while the dialog is closed
Late(d, timer, call) ==
    IF timer \in d.g.stale /\ ~d.cur.open
    THEN [d EXCEPT !.g.lateCalls = @ \cup {call}] ELSE d

Fired(d, timer) == [d EXCEPT !.timers = @ \ {timer}, !.g.stale = @ \ {timer}]

\* src/src/components/FarcasterSignIn.tsx:314-329: the tick of the interval
\* that finds the render connected, or else the 2 s timeout, calls startSignIn
connectIntervalTick ==
    /\ Settled
    /\ "start" \in dlg.timers
    /\ dlg' = Fired(StartSignIn(Late(dlg, "start", "startSignIn")), "start")
    /\ UNCHANGED <<probe, accounts, links, session, user, faults, wa, hs>>

\* src/src/components/FarcasterSignIn.tsx:431-434: the 1 s timeout of a
\* recreation calls connect and sets the 500 ms timeout
recreateTimeout ==
    /\ Flushed
    /\ "recreateConnect" \in dlg.timers
    /\ LET d == SetTimer(Connect(Late(dlg, "recreateConnect", "connect")),
                          "recreateStart")
       IN  dlg' = Fired([d EXCEPT !.g.stale =
                             IF "recreateConnect" \in dlg.g.stale
                             THEN @ \cup {"recreateStart"} ELSE @],
                        "recreateConnect")
    /\ UNCHANGED <<probe, accounts, links, session, user, faults, wa, hs>>

\* src/src/components/FarcasterSignIn.tsx:433: the 500 ms timeout calls
\* startSignIn
recreateStartTimeout ==
    /\ Flushed
    /\ "recreateStart" \in dlg.timers
    /\ dlg' = Fired(StartSignIn(Late(dlg, "recreateStart", "startSignIn")),
                    "recreateStart")
    /\ UNCHANGED <<probe, accounts, links, session, user, faults, wa, hs>>

\* src/src/components/FarcasterSignIn.tsx:441-447, behind the buttons of lines
\* 538-543 and 608-615; the button clicked is one the next render keeps
handleStartSignIn ==
    /\ Flushed
    /\ \A state \in {dlg.rd, Current} :
          /\ state.open
          /\ \/ ~state.hasStarted /\ ~state.isProcessing
             \/ ErrorView(state)
    /\ dlg' = StartSignIn(Connect([dlg EXCEPT !.cur.hasStarted = TRUE,
                                              !.cur.hasProcessedSuccess = FALSE,
                                              !.g.recreations = 0]))
    /\ UNCHANGED <<probe, accounts, links, session, user, faults, wa, hs>>

\* the relay answers a poll of the channel with 401: useSignIn reports isError
\* and the error (FarcasterSignIn.tsx:280-293)
relayRejects ==
    /\ Settled
    /\ dlg.cur.isPolling
    /\ dlg.cur.channelToken # NoChannel
    /\ dlg.cur.error = NoError401
    /\ dlg' = [dlg EXCEPT !.cur.error = Error401, !.g.errors = Min(@ + 1, 3)]
    /\ UNCHANGED <<probe, accounts, links, session, user, faults, wa, hs>>

\* a later poll is answered: useSignIn reports no error any more
relayAnswers ==
    /\ Flushed
    /\ dlg.cur.error # NoError401
    /\ dlg' = [dlg EXCEPT !.cur.error = NoError401]
    /\ UNCHANGED <<probe, accounts, links, session, user, faults, wa, hs>>

\* the transport of the channel comes up, and drops
transportConnects ==
    /\ Settled
    /\ dlg.cur.channelToken # NoChannel
    /\ ~dlg.cur.isConnected
    /\ dlg' = [dlg EXCEPT !.cur.isConnected = TRUE, !.g.dropped = FALSE,
                          !.g.reconnects = 0]
    /\ UNCHANGED <<probe, accounts, links, session, user, faults, wa, hs>>

transportDrops ==
    /\ Settled
    /\ dlg.cur.isConnected
    /\ dlg' = [dlg EXCEPT !.cur.isConnected = FALSE, !.g.dropped = dlg.cur.isPolling,
                          !.g.reconnects = 0]
    /\ UNCHANGED <<probe, accounts, links, session, user, faults, wa, hs>>

\* src/src/components/FarcasterSignIn.tsx:354-361: a tick of the interval that
\* finds the data
checkIntervalTick ==
    /\ dlg.checkInterval
    /\ dlg.rd.data # NoPayload /\ PayloadText[dlg.rd.data].valid
    /\ ~dlg.rd.hasProcessedSuccess
    /\ \E st0 \in {[d |-> [dlg EXCEPT !.checkInterval = FALSE], h |-> hs, ok |-> TRUE]} :
       \E st \in {handleSuccess(st0, dlg.rd.data)} :
          /\ st.ok
          /\ dlg' = st.d
          /\ hs' = st.h
    /\ UNCHANGED <<probe, accounts, links, session, user, faults, wa>>

\* the relay delivers the signed payload to useSignIn: `data` is set and the
\* hook will call onSuccess (FarcasterSignIn.tsx:280-293)
relayCompletes ==
    /\ dlg.cur.open /\ dlg.cur.hasStarted
    /\ dlg.cur.data = NoPayload
    /\ \E p \in Payloads, polling \in BOOLEAN :
          dlg' = [dlg EXCEPT !.cur.data = p, !.cur.isPolling = polling,
                             !.onSuccessPending = TRUE]
    /\ UNCHANGED <<probe, accounts, links, session, user, faults, wa, hs>>

\* src/src/components/FarcasterSignIn.tsx:293: useSignIn calls onSuccess, the
\* handleSuccess of the last render
onSuccess ==
    /\ dlg.onSuccessPending
    /\ dlg.cur.data # NoPayload
    /\ \E st0 \in {[d |-> [dlg EXCEPT !.onSuccessPending = FALSE], h |-> hs, ok |-> TRUE]} :
       \E st \in {handleSuccess(st0, dlg.cur.data)} :
          /\ st.ok
          /\ dlg' = st.d
          /\ hs' = st.h
    /\ UNCHANGED <<probe, accounts, links, session, user, faults, wa>>

(***************************************************************************)
(* handleSuccess after its first await, for the invocation in slot t.      *)
(***************************************************************************)
HsEmail(t) == PayloadText[hs[t].res].email
HsPassword(t) == PayloadText[hs[t].res].password
HsAltPasswords(t) == PayloadText[hs[t].res].altPasswords

\* src/src/components/FarcasterSignIn.tsx:195-210
PasswordResetNeeded(username, farcasterEmail, farcasterPassword) ==
    "Your account exists but needs a password reset.\n\n"
      \o "Since we verified your Farcaster identity (@" \o username
      \o "), here's how to fix it:\n\n"
      \o "OPTION 1 (Recommended - Quick Fix):\n"
      \o "1. Go to Supabase Dashboard -> Authentication -> Users\n"
      \o "2. Find user with email: " \o farcasterEmail \o "\n"
      \o "3. Click \"Reset Password\" or \"Edit User\"\n"
      \o "4. Set password to: " \o farcasterPassword \o "\n"
      \o "5. Try signing in again\n\n"
      \o "OPTION 2 (Auto-reset for all users):\n"
      \o "Run the SQL script in supabase/migrations/reset_farcaster_passwords.sql\n"
      \o "in your Supabase Dashboard -> SQL Editor to reset all Farcaster user passwords.\n\n"
      \o "Your new password: " \o farcasterPassword

\* src/src/components/FarcasterSignIn.tsx:268-277: catch and finally
HsThrow(h, message) == [h EXCEPT !.pc = "done", !.outcome = "failed", !.error = message]

\* an exhausted loop that goes on to the Link Record
AllPasswordsFailed_GoesOn(h, text) == [h EXCEPT !.pc = "getUser"]

\* src/src/components/FarcasterSignIn.tsx:169-219: no variant signed in
AllPasswordsFailed(h, text) ==
    HsThrow(h, PasswordResetNeeded(text.username, text.email, text.password))

\* src/src/components/FarcasterSignIn.tsx:121-124
handleSuccess_SignIn(t) ==
    /\ hs[t].pc = "signIn"
    /\ \E fault \in BOOLEAN :
          LET match == PasswordMatches(accounts, HsEmail(t), HsPassword(t))
              ok == match /\ ~fault
          IN  /\ fault => match
              /\ MayFail(fault)
              /\ faults' = Count(fault)
              /\ session' = IF ok THEN HsEmail(t) ELSE session
              /\ hs' = [hs EXCEPT ![t].calls = Append(@, Call("signIn", HsEmail(t),
                                                               HsPassword(t), ok)),
                                  ![t].pc = IF ok THEN "getUser" ELSE "signUp"]
    /\ UNCHANGED <<probe, accounts, links, user, wa, dlg>>

\* src/src/components/FarcasterSignIn.tsx:130: the message names a registered identity
IsRegisteredMessage(message) == message = AlreadyRegistered

\* src/src/components/FarcasterSignIn.tsx:125-142 and 220-222
handleSuccess_SignUp(t) ==
    /\ hs[t].pc = "signUp"
    /\ \E fault \in BOOLEAN :
          LET err == SignUpError(accounts, HsEmail(t), fault)
              h == [hs[t] EXCEPT !.calls = Append(@, Call("signUp", HsEmail(t),
                                                           HsPassword(t), err = NoError))]
          IN  /\ MayFail(fault)
              /\ faults' = Count(fault)
              /\ accounts' = IF err = NoError
                             THEN Register(accounts, HsEmail(t), HsPassword(t)) ELSE accounts
              /\ session' = IF err = NoError THEN HsEmail(t) ELSE session
              /\ hs' = [hs EXCEPT ![t] =
                          IF err = NoError THEN [h EXCEPT !.pc = "getUser"]
                          ELSE IF IsRegisteredMessage(err)
                          THEN [h EXCEPT !.pc = "altSignIn", !.i = 1]
                          ELSE HsThrow(h, err)]
              /\ dlg' = IF err \notin {NoError, AlreadyRegistered}
                        THEN [dlg EXCEPT !.cur.isProcessing = FALSE] ELSE dlg
    /\ UNCHANGED <<probe, links, user, wa>>

\* src/src/components/FarcasterSignIn.tsx:143-148, 165-169 and 212-218: one
\* turn of the loop over altPasswords
handleSuccess_AltSignIn(t) ==
    /\ hs[t].pc = "altSignIn"
    /\ \E fault \in BOOLEAN :
          LET altPassword == HsAltPasswords(t)[hs[t].i]
              match == PasswordMatches(accounts, HsEmail(t), altPassword)
              ok == match /\ ~fault
              h == [hs[t] EXCEPT !.calls = Append(@, Call("signIn", HsEmail(t),
                                                           altPassword, ok))]
              exhausted == ~ok /\ hs[t].i = Len(HsAltPasswords(t))
          IN  /\ fault => match
              /\ MayFail(fault)
              /\ faults' = Count(fault)
              /\ session' = IF ok THEN HsEmail(t) ELSE session
              /\ hs' = [hs EXCEPT ![t] =
                          IF ok THEN [h EXCEPT !.pc = IF altPassword # HsPassword(t)
                                                      THEN "reset" ELSE "getUser"]
                          ELSE IF ~exhausted THEN [h EXCEPT !.i = @ + 1]
                          ELSE AllPasswordsFailed(h, PayloadText[hs[t].res])]
              /\ dlg' = IF exhausted THEN [dlg EXCEPT !.cur.isProcessing = FALSE] ELSE dlg
    /\ UNCHANGED <<probe, accounts, links, user, wa>>

\* src/supabase/functions/reset-farcaster-password/index.ts:52-86: the user
\* with that email gets the new password
ResetPassword(acc, email, newPassword) ==
    IF email \in DOMAIN acc THEN [acc EXCEPT ![email] = newPassword] ELSE acc

\* a secret update whose failure ends the attempt with an error
handleSuccess_Reset_Aborts(t) ==
    /\ hs[t].pc = "reset"
    /\ \E fault \in BOOLEAN :
          /\ MayFail(fault)
          /\ faults' = Count(fault)
          /\ accounts' = IF fault THEN accounts
                         ELSE ResetPassword(accounts, HsEmail(t), HsPassword(t))
          /\ hs' = [hs EXCEPT ![t] =
                      IF fault THEN [HsThrow(@, OtherError) EXCEPT !.reset = "failed"]
                      ELSE [@ EXCEPT !.pc = "getUser", !.reset = "updated"]]
    /\ UNCHANGED <<probe, links, session, user, wa, dlg>>

\* src/src/components/FarcasterSignIn.tsx:149-164: a failure of the function
\* is logged and the attempt goes on
handleSuccess_Reset(t) ==
    /\ hs[t].pc = "reset"
    /\ \E fault \in BOOLEAN :
          /\ MayFail(fault)
          /\ faults' = Count(fault)
          /\ accounts' = IF fault THEN accounts
                         ELSE ResetPassword(accounts, HsEmail(t), HsPassword(t))
          /\ hs' = [hs EXCEPT ![t].pc = "getUser",
                              ![t].reset = IF fault THEN "failed" ELSE "updated"]
    /\ UNCHANGED <<probe, links, session, user, wa, dlg>>

\* src/src/components/FarcasterSignIn.tsx:226-232 and, without a user, 253-261
handleSuccess_GetUser(t) ==
    /\ hs[t].pc = "getUser"
    /\ \E fault \in BOOLEAN :
          /\ fault => session # NoUser
          /\ MayFail(fault)
          /\ faults' = Count(fault)
          /\ LET authUser == IF fault THEN NoUser ELSE session
             IN  /\ hs' = [hs EXCEPT ![t].authUser = authUser,
                                     ![t].pc = IF authUser # NoUser THEN "upsert"
                                               ELSE "dispatch"]
                 /\ dlg' = IF authUser = NoUser THEN [dlg EXCEPT !.cur.open = FALSE] ELSE dlg
    /\ UNCHANGED <<probe, accounts, links, session, user, wa>>

\* src/src/components/FarcasterSignIn.tsx:232-261
handleSuccess_Upsert(t) ==
    /\ hs[t].pc = "upsert"
    /\ \E fault \in BOOLEAN :
          LET dbError == fault \/ ~MayWrite(session, hs[t].authUser)
          IN  /\ MayFail(fault)
              /\ faults' = Count(fault)
              /\ links' = IF dbError THEN links
                          ELSE UpsertRow(links, hs[t].authUser, PayloadText[hs[t].res].columns)
              /\ hs' = [hs EXCEPT ![t].pc = "dispatch",
                                  ![t].writes = IF dbError THEN @ ELSE @ + 1]
              /\ dlg' = [dlg EXCEPT !.cur.open = FALSE]
    /\ UNCHANGED <<probe, accounts, session, user, wa>>

\* src/src/components/FarcasterSignIn.tsx:263-267 and 275-277
handleSuccess_Dispatch(t) ==
    /\ hs[t].pc = "dispatch"
    /\ hs' = [hs EXCEPT ![t].pc = "done", ![t].outcome = "welcome",
                        ![t].dispatched = @ \cup {"farcaster-connected"}]
    /\ dlg' = [dlg EXCEPT !.cur.isProcessing = FALSE]
    /\ UNCHANGED <<probe, accounts, links, session, user, faults, wa>>

handleSuccess_Steps(t) ==
    \/ handleSuccess_SignIn(t)
    \/ handleSuccess_SignUp(t)
    \/ handleSuccess_AltSignIn(t)
    \/ handleSuccess_GetUser(t)
    \/ handleSuccess_Upsert(t)
    \/ handleSuccess_Dispatch(t)

(***************************************************************************)
(* The dialog seen from the account stores: it is opened on the sign-in    *)
(* page, the relay completes with payload p and useSignIn calls onSuccess  *)
(* once (FarcasterSignIn.tsx:280-302 and unnamed/part_003:218-220, 358).   *)
(***************************************************************************)
DlgOpened(p) ==
    [DlgIdle EXCEPT !.cur.open = TRUE, !.cur.hasStarted = TRUE, !.cur.data = p,
                    !.rd.open = TRUE, !.rd.hasStarted = TRUE]

FarcasterSignIn_onSuccess ==
    /\ Quiet
    /\ user = NoUser
    /\ ~dlg.cur.open
    /\ \E p \in Payloads :
       \E st0 \in {[d |-> DlgOpened(p), h |-> [t \in Threads |-> HsIdle], ok |-> TRUE]} :
       \E st \in {handleSuccess(st0, p)} :
          /\ dlg' = st.d
          /\ hs' = st.h
    /\ wa' = WaIdle
    /\ UNCHANGED <<probe, accounts, links, session, user, faults>>

(***************************************************************************)
(* AuthProvider and the signed-in pages.                                   *)
(***************************************************************************)
\* src/unnamed/part_005:46-57: the listener copies the session's user; with
\* a user the sign-in page navigates away (src/unnamed/part_003:24-28) and
\* the records of its finished attempts are gone
onAuthStateChange ==
    /\ user # session
    /\ user' = session
    /\ IF Quiet /\ session # NoUser
       THEN wa' = WaIdle /\ hs' = [t \in Threads |-> HsIdle] /\ dlg' = DlgIdle
       ELSE UNCHANGED <<wa, hs, dlg>>
    /\ probe' = NoProbe
    /\ UNCHANGED <<accounts, links, session, faults>>

\* the signed-in pages: no attempt of the sign-in page is left
SignedIn ==
    /\ Quiet
    /\ user # NoUser
    /\ wa' = WaIdle /\ hs' = [t \in Threads |-> HsIdle] /\ dlg' = DlgIdle

\* src/unnamed/part_005:137-140
signOut ==
    /\ SignedIn
    /\ session' = NoUser
    /\ probe' = NoProbe
    /\ UNCHANGED <<accounts, links, user, faults>>

\* src/unnamed/part_005:19-22: the page is loaded again; `user` is null until
\* the stored session has been read
AuthProvider ==
    /\ SignedIn
    /\ user' = NoUser
    /\ probe' = NoProbe
    /\ UNCHANGED <<accounts, links, session, faults>>

\* src/src/hooks/useWallet.tsx:494-515: the address as the provider reports it
saveWalletToDatabase(ls, uid, authUser, address, fault) ==
    IF authUser = NoUser \/ fault \/ ~MayWrite(uid, authUser) THEN ls
    ELSE UpsertRow(ls, authUser, [c \in {"wallet_address"} |-> Some(AddressText[address].raw)])

\* src/src/hooks/useWallet.tsx:630-731: connect on a signed-in page, with the
\* authUser of the render
useWallet_connect ==
    /\ SignedIn
    /\ \E a \in Addresses, fault \in BOOLEAN :
          /\ MayFail(fault)
          /\ faults' = Count(fault)
          /\ links' = saveWalletToDatabase(links, session, user, a, fault)
    /\ probe' = NoProbe
    /\ UNCHANGED <<accounts, session, user>>

\* src/unnamed/part_006:50-56: the demonstration user of useFarcaster.connect
MockColumns ==
    [c \in SocialColumns |->
        CASE c = "farcaster_fid" -> Some(MockFid)
          [] c = "farcaster_username" -> Some("demo_user")
          [] c = "farcaster_display_name" -> Some("Demo User")
          [] c = "farcaster_pfp_url" -> Some("https://i.pravatar.cc/150?img=3")
          [] c = "farcaster_signer_uuid" -> Some("signer")]

\* src/unnamed/part_006:31-87: connect on a signed-in page
useFarcaster_connect ==
    /\ SignedIn
    /\ \E fault \in BOOLEAN :
          /\ MayFail(fault)
          /\ faults' = Count(fault)
          /\ links' = IF fault \/ ~MayWrite(session, user) THEN links
                      ELSE UpsertRow(links, user, MockColumns)
    /\ probe' = NoProbe
    /\ UNCHANGED <<accounts, session, user>>

\* an unlink that clears every column of the record
ClearedWallet_WholeRecord == [c \in Columns |-> None]

\* src/src/hooks/useWallet.tsx:755 (and 280): .update({ wallet_address: null })
ClearedWallet == [c \in {"wallet_address"} |-> None]

\* src/unnamed/part_006:93-99
ClearedFarcaster == [c \in SocialColumns |-> None]

\* a disconnect of the signed-in page: .update(cols).eq('user_id', authUser.id)
\* with the authUser of the render; probe keeps the Link Store as it was
Disconnect(kind, cols) ==
    /\ SignedIn
    /\ \E fault \in BOOLEAN :
          LET updated == ~fault /\ MayWrite(session, user)
          IN  /\ MayFail(fault)
              /\ faults' = Count(fault)
              /\ links' = IF updated THEN UpdateRow(links, user, cols) ELSE links
              /\ probe' = [kind |-> kind, input |-> [links |-> links, authUser |-> user],
                           output |-> [updated |-> updated]]
    /\ UNCHANGED <<accounts, session, user>>

\* src/src/hooks/useWallet.tsx:733-763 (and 275-295)
useWallet_disconnect == Disconnect("useWallet.disconnect", ClearedWallet)

\* src/unnamed/part_006:89-109
useFarcaster_disconnect == Disconnect("useFarcaster.disconnect", ClearedFarcaster)

(***************************************************************************)
(* Initial state: no account, or one Farcaster account that an earlier     *)
(* release registered under a legacy secret variant (the variants of       *)
(* FarcasterSignIn.tsx:135-140), with the Link Record it wrote.            *)
(***************************************************************************)
LegacyFid == CHOOSE fid \in Fids : TRUE
LegacyUsername == CHOOSE username \in Usernames : TRUE
LegacyVariants == 2..4

LegacyPassword(variant) ==
    Join(AltPasswords(LegacyFid, LegacyUsername, RelaySignatureString(1))[variant])

LegacyEmail == Join(FarcasterEmail(LegacyFid))

LegacyRow ==
    [EmptyRow EXCEPT !.farcaster_fid = Some(LegacyFid),
                     !.farcaster_username = Some(Join(LegacyUsername)),
                     !.farcaster_display_name = Some(Join(LegacyUsername)),
                     !.farcaster_pfp_url = Some("")]

Init ==
    /\ \/ accounts = <<>> /\ links = <<>>
       \/ \E variant \in LegacyVariants :
             /\ accounts = Register(<<>>, LegacyEmail, LegacyPassword(variant))
             /\ links = UpsertRow(<<>>, LegacyEmail, LegacyRow)
    /\ session = NoUser
    /\ user = NoUser
    /\ faults = 0
    /\ wa = WaIdle
    /\ hs = [t \in Threads |-> HsIdle]
    /\ dlg = DlgIdle
    /\ probe = NoProbe

\* the sign-in page, the signed-in pages and the account stores
Next ==
    \/ handleWalletAuth
    \/ FarcasterSignIn_onSuccess
    \/ closeDialog
    \/ \E t \in Threads : handleSuccess_Steps(t) \/ handleSuccess_Reset(t)
    \/ onAuthStateChange
    \/ signOut
    \/ AuthProvider
    \/ useWallet_connect
    \/ useFarcaster_connect

Spec == Init /\ [][Next]_vars

\* the dialog with its renders and effects
NextDialog ==
    \/ handleFarcasterConnect
    \/ closeDialog
    \/ Render
    \/ FlushEffects
    \/ connectIntervalTick
    \/ checkIntervalTick
    \/ relayCompletes
    \/ onSuccess
    \/ \E t \in Threads : handleSuccess_Steps(t)
    \/ onAuthStateChange

\* the dialog and its relay channel, before any payload is delivered
NextChannel ==
    \/ handleFarcasterConnect
    \/ closeDialog
    \/ Render
    \/ FlushEffects
    \/ connectIntervalTick
    \/ recreateTimeout
    \/ recreateStartTimeout
    \/ handleStartSignIn
    \/ relayRejects
    \/ relayAnswers
    \/ transportConnects
    \/ transportDrops

\* the dialog is studied with stores that hold no account yet and do not fail
InitDialog ==
    /\ accounts = <<>>
    /\ links = <<>>
    /\ session = NoUser
    /\ user = NoUser
    /\ faults = MaxFaults
    /\ wa = WaIdle
    /\ hs = [t \in Threads |-> HsIdle]
    /\ dlg = DlgIdle
    /\ probe = NoProbe

SpecDialog == InitDialog /\ [][NextDialog]_vars

SpecChannel == InitDialog /\ [][NextChannel]_vars

\* the sign-in page and the connections of the signed-in pages, with stores
\* that hold no account yet and do not fail; no account has a legacy secret,
\* so handleSuccess never comes to its alternative variants
NextConnections ==
    \/ handleWalletAuth
    \/ FarcasterSignIn_onSuccess
    \/ \E t \in Threads : \/ handleSuccess_SignIn(t)
                           \/ handleSuccess_SignUp(t)
                           \/ handleSuccess_GetUser(t)
                           \/ handleSuccess_Upsert(t)
                           \/ handleSuccess_Dispatch(t)
    \/ onAuthStateChange
    \/ signOut
    \/ AuthProvider
    \/ useWallet_connect
    \/ useFarcaster_connect
    \/ useWallet_disconnect
    \/ useFarcaster_disconnect

SpecConnections == InitDialog /\ [][NextConnections]_vars

(***************************************************************************)
(* Two browsers on the sign-in page, over the same stores.  Each browser   *)
(* has its own session, attempt records and dialog; the actions above run  *)
(* in the browser that is scheduled, `probe` keeps the other one, and a    *)
(* switch between two awaits hands the turn over.                          *)
(***************************************************************************)
Browser(s, w, h, d) == [kind |-> "browser", session |-> s, wa |-> w, hs |-> h, dlg |-> d]

SwitchBrowser ==
    /\ probe.kind = "browser"
    /\ probe' = Browser(session, wa, hs, dlg)
    /\ session' = probe.session
    /\ wa' = probe.wa
    /\ hs' = probe.hs
    /\ dlg' = probe.dlg
    /\ UNCHANGED <<accounts, links, user, faults>>

\* an account of a social sign-in (FarcasterSignIn.tsx:125 and 232-244) whose
\* Link Record got address a on the signed-in page (useWallet.tsx:494-515)
LinkedPayload == CHOOSE p \in Payloads : p.shape = "flat"
LinkedRow(a) ==
    UpsertRow(UpsertRow(<<>>, PayloadText[LinkedPayload].email,
                        PayloadText[LinkedPayload].columns),
              PayloadText[LinkedPayload].email,
              [c \in {"wallet_address"} |-> Some(AddressText[a].raw)])

\* the stores are empty, or hold one linked account whose owner has reloaded
\* the sign-in page of the first browser (src/unnamed/part_005:19-22); the
\* stores do not fail
InitBrowsers ==
    /\ \/ accounts = <<>> /\ links = <<>> /\ session = NoUser
       \/ \E a \in Addresses :
             /\ accounts = Register(<<>>, PayloadText[LinkedPayload].email,
                                    PayloadText[LinkedPayload].password)
             /\ links = LinkedRow(a)
             /\ session = PayloadText[LinkedPayload].email
    /\ user = NoUser
    /\ faults = MaxFaults
    /\ wa = WaIdle
    /\ hs = [t \in Threads |-> HsIdle]
    /\ dlg = DlgIdle
    /\ probe = Browser(NoUser, WaIdle, [t \in Threads |-> HsIdle], DlgIdle)

\* the scheduled browser has made no attempt yet
FirstAttempt == wa.pc = "idle" /\ \A t \in Threads : hs[t].pc = "idle"

\* each browser makes one attempt, with the wallet or with Farcaster
NextBrowsers ==
    \/ FirstAttempt /\ handleWalletAuth_Start
    \/ handleWalletAuth_RequestAddress
    \/ handleWalletAuth_PersonalSign
    \/ handleWalletAuth_Lookup
    \/ handleWalletAuth_AltSignIn
    \/ handleWalletAuth_AltGetUser
    \/ handleWalletAuth_AltUpdate
    \/ handleWalletAuth_SignIn
    \/ handleWalletAuth_SignUp
    \/ handleWalletAuth_Retry
    \/ handleWalletAuth_GetUser
    \/ handleWalletAuth_ReadCurrent
    \/ handleWalletAuth_Upsert
    \/ FirstAttempt /\ FarcasterSignIn_onSuccess
    \/ \E t \in Threads : \/ handleSuccess_SignIn(t)
                           \/ handleSuccess_SignUp(t)
                           \/ handleSuccess_GetUser(t)
                           \/ handleSuccess_Upsert(t)
                           \/ handleSuccess_Dispatch(t)
    \/ SwitchBrowser

SpecBrowsers == InitBrowsers /\ [][NextBrowsers]_vars

(***************************************************************************)
(* useWallet: the state of the hook, the listeners it has registered on    *)
(* the provider and its calls that are waiting for a promise, kept in      *)
(* `probe`.  The stores are those of the page: a signed-in page has        *)
(* authUser, the sign-in page has none.                                    *)
(***************************************************************************)
BASE_CHAIN_ID == 8453
BASE_SEPOLIA_CHAIN_ID == 84532
ChainIds == {BASE_CHAIN_ID, BASE_SEPOLIA_CHAIN_ID}
WalletTypes == {"metamask", "walletconnect"}

\* src/src/hooks/useWallet.tsx:459-466, and the object of every reset
WalletState ==
    [address |-> None, isConnecting |-> FALSE, isConnected |-> FALSE,
     chainId |-> None, error |-> None, walletType |-> None]

Hook(state, listeners, pending) ==
    [kind |-> "useWallet", state |-> state, listeners |-> listeners, pending |-> pending]

\* src/src/hooks/useWallet.tsx:564-570: provider.on(...) of setupEventListeners
Listeners(walletType) ==
    {"accountsChanged", "chainChanged"}
        \cup (IF walletType = "walletconnect" THEN {"disconnect"} ELSE {})

\* src/src/hooks/useWallet.tsx:577 and 630-704: connect up to its first await
useWallet_connect_Request ==
    /\ probe.kind = "useWallet"
    /\ \A call \in probe.pending : call.op # "connect"
    /\ \E type \in WalletTypes, provider \in BOOLEAN :
          probe' =
             IF type # "walletconnect" /\ ~provider
             THEN [probe EXCEPT !.state.error = Some("Please install MetaMask")]
             ELSE [probe EXCEPT !.state.isConnecting = TRUE, !.state.error = None,
                                !.pending = @ \cup {[op |-> "connect", type |-> type]}]
    /\ UNCHANGED <<accounts, links, session, user, faults, wa, hs, dlg>>

\* src/src/hooks/useWallet.tsx:596-626 and 706-731: the provider has answered
useWallet_connect_Settle ==
    /\ probe.kind = "useWallet"
    /\ \E call \in probe.pending, a \in Addresses, chainId \in ChainIds,
          granted \in BOOLEAN :
          /\ call.op = "connect"
          /\ probe' =
                IF granted
                THEN Hook([address |-> Some(a), isConnecting |-> FALSE,
                           isConnected |-> TRUE, chainId |-> Some(chainId),
                           error |-> None, walletType |-> Some(call.type)],
                          probe.listeners \cup Listeners(call.type),
                          probe.pending \ {call})
                ELSE Hook([probe.state EXCEPT !.isConnecting = FALSE,
                                              !.error = Some(RejectedError)],
                          probe.listeners, probe.pending \ {call})
          /\ links' = IF granted THEN saveWalletToDatabase(links, session, user, a, FALSE)
                      ELSE links
    /\ UNCHANGED <<accounts, session, user, faults, wa, hs, dlg>>

\* src/src/hooks/useWallet.tsx:733-752: disconnect up to its first await;
\* without authUser and without WalletConnect it awaits nothing
useWallet_disconnect_Request ==
    /\ probe.kind = "useWallet"
    /\ \A call \in probe.pending : call.op # "disconnect"
    /\ probe' =
          IF user = NoUser /\ probe.state.walletType # Some("walletconnect")
          THEN [probe EXCEPT !.state = WalletState]
          ELSE [probe EXCEPT !.pending =
                   @ \cup {[op |-> "disconnect", type |-> "none"]}]
    /\ UNCHANGED <<accounts, links, session, user, faults, wa, hs, dlg>>

\* src/src/hooks/useWallet.tsx:744-762
useWallet_disconnect_Settle ==
    /\ probe.kind = "useWallet"
    /\ \E call \in probe.pending :
          /\ call.op = "disconnect"
          /\ probe' = Hook(WalletState, probe.listeners, probe.pending \ {call})
    /\ links' = IF MayWrite(session, user) THEN UpdateRow(links, user, ClearedWallet)
                ELSE links
    /\ UNCHANGED <<accounts, session, user, faults, wa, hs, dlg>>

\* src/src/hooks/useWallet.tsx:793: the account of the provider is the stored one
SameAddress(a, stored) ==
    \E b \in Addresses :
        /\ stored \in {AddressText[b].raw, AddressText[b].normalizedAddress}
        /\ ToLowerCase(AddressString(a)) = ToLowerCase(AddressString(b))

\* src/src/hooks/useWallet.tsx:765-818
useWallet_loadWallet ==
    /\ probe.kind = "useWallet"
    /\ user # NoUser
    /\ LET data == ConnectionOf(links, session, user)
       IN  /\ IsSome(data)
           /\ IsSome(Get(data).row.wallet_address)
           /\ \E available \in BOOLEAN, accounts_ \in {<<>>} \cup {<<a>> : a \in Addresses},
                  chainId \in ChainIds :
                 probe' =
                    IF ~available THEN probe
                    ELSE IF accounts_ # <<>>
                            /\ SameAddress(accounts_[1], Get(Get(data).row.wallet_address))
                    THEN [probe EXCEPT !.state =
                             [address |-> Some(accounts_[1]), isConnecting |-> FALSE,
                              isConnected |-> TRUE, chainId |-> Some(chainId),
                              error |-> None, walletType |-> Some("metamask")]]
                    ELSE [probe EXCEPT !.state.address = None,
                                       !.state.isConnected = FALSE]
    /\ UNCHANGED <<accounts, links, session, user, faults, wa, hs, dlg>>

\* src/src/hooks/useWallet.tsx:518-546: the query of either branch is built
\* and never awaited, so no request reaches the Link Store
handleAccountsChanged ==
    /\ probe.kind = "useWallet"
    /\ "accountsChanged" \in probe.listeners
    /\ \E accounts_ \in {<<>>} \cup {<<a>> : a \in Addresses} :
          probe' = IF accounts_ = <<>> THEN [probe EXCEPT !.state = WalletState]
                   ELSE [probe EXCEPT !.state.address = Some(accounts_[1])]
    /\ UNCHANGED <<accounts, links, session, user, faults, wa, hs, dlg>>

\* src/src/hooks/useWallet.tsx:548-551
handleChainChanged ==
    /\ probe.kind = "useWallet"
    /\ "chainChanged" \in probe.listeners
    /\ \E chainId \in ChainIds : probe' = [probe EXCEPT !.state.chainId = Some(chainId)]
    /\ UNCHANGED <<accounts, links, session, user, faults, wa, hs, dlg>>

\* src/src/hooks/useWallet.tsx:553-562
handleDisconnect ==
    /\ probe.kind = "useWallet"
    /\ "disconnect" \in probe.listeners
    /\ probe' = [probe EXCEPT !.state = WalletState]
    /\ UNCHANGED <<accounts, links, session, user, faults, wa, hs, dlg>>

\* the hook is mounted on the sign-in page, or on a page of a signed-in
\* account that has no Link Record yet; the stores do not fail
WalletAccount == CHOOSE a \in Addresses : a.form = "lower"
InitWallet ==
    /\ \/ accounts = <<>> /\ session = NoUser
       \/ /\ accounts = Register(<<>>, AddressText[WalletAccount].walletEmail,
                                  WalletPasswordText[<<WalletAccount,
                                                       GenuineSignature(WalletAccount)>>])
          /\ session = AddressText[WalletAccount].walletEmail
    /\ user = session
    /\ links = <<>>
    /\ faults = MaxFaults
    /\ wa = WaIdle
    /\ hs = [t \in Threads |-> HsIdle]
    /\ dlg = DlgIdle
    /\ probe = Hook(WalletState, {}, {})

NextWallet ==
    \/ useWallet_connect_Request
    \/ useWallet_connect_Settle
    \/ useWallet_disconnect_Request
    \/ useWallet_disconnect_Settle
    \/ useWallet_loadWallet
    \/ handleAccountsChanged
    \/ handleChainChanged
    \/ handleDisconnect

SpecWallet == InitWallet /\ [][NextWallet]_vars

(***************************************************************************)
(* AuthProvider at start-up: `session` is the session that supabase.auth   *)
(* persists, `user` the user the provider exposes; `probe` keeps the clock *)
(* (Date.now(), in milliseconds), localStorage's lastActivityTimestamp,    *)
(* the steps of the mount effect that are still to run, and what the       *)
(* provider found when it was mounted.                                     *)
(***************************************************************************)
Day == 24 * 60 * 60 * 1000
INACTIVITY_TIMEOUT == 7 * 24 * 60 * 60 * 1000

Mounted(now, lastActivity, found) ==
    [kind |-> "AuthProvider", now |-> now, lastActivity |-> lastActivity,
     loading |-> TRUE, initialSession |-> TRUE, initAuth |-> TRUE,
     found |-> found, mountedAt |-> now]

\* src/unnamed/part_005:30-35: the stored timestamp is older than the timeout
Inactive(now, lastActivity) ==
    IsSome(lastActivity) /\ now - Get(lastActivity) > INACTIVITY_TIMEOUT

\* what a mount finds: no session, a session past the timeout, or a valid one
Found(s, now, lastActivity) ==
    IF s = NoUser THEN "none"
    ELSE IF Inactive(now, lastActivity) THEN "expired" ELSE "valid"

StartedUp == probe.kind = "AuthProvider" /\ ~probe.initialSession /\ ~probe.initAuth

\* src/unnamed/part_005:19-22: the page is loaded again
AuthProvider_mount ==
    /\ StartedUp
    /\ user' = NoUser
    /\ probe' = Mounted(probe.now, probe.lastActivity,
                        Found(session, probe.now, probe.lastActivity))
    /\ UNCHANGED <<accounts, links, session, faults, wa, hs, dlg>>

\* src/unnamed/part_005:46-57: the listener gets the initial session
AuthProvider_onAuthStateChange ==
    /\ probe.kind = "AuthProvider"
    /\ probe.initialSession
    /\ user' = session
    /\ probe' = [probe EXCEPT !.initialSession = FALSE, !.loading = FALSE,
                              !.lastActivity = IF session # NoUser THEN Some(probe.now)
                                               ELSE @]
    /\ UNCHANGED <<accounts, links, session, faults, wa, hs, dlg>>

\* src/unnamed/part_005:29-42 and 59-75: getSession, checkInactivity and what
\* follows; the sign-out calls the listener with no session
initAuth ==
    /\ probe.kind = "AuthProvider"
    /\ probe.initAuth
    /\ LET wasInactive == session # NoUser /\ Inactive(probe.now, probe.lastActivity)
       IN  /\ session' = IF wasInactive THEN NoUser ELSE session
           /\ user' = IF wasInactive THEN NoUser
                      ELSE IF session # NoUser THEN session ELSE user
           /\ probe' = [probe EXCEPT !.initAuth = FALSE, !.loading = FALSE,
                                     !.lastActivity =
                                         IF wasInactive THEN None
                                         ELSE IF session # NoUser THEN Some(probe.now)
                                         ELSE @]
    /\ UNCHANGED <<accounts, links, faults, wa, hs, dlg>>

\* src/unnamed/part_005:80-107: an input event of a signed-in user
handleActivity ==
    /\ StartedUp
    /\ user # NoUser
    /\ probe' = [probe EXCEPT !.lastActivity = Some(probe.now)]
    /\ UNCHANGED <<accounts, links, session, user, faults, wa, hs, dlg>>

\* src/unnamed/part_005:124-134 with 46-57: a sign-in of the one account
AuthProvider_signIn ==
    /\ StartedUp
    /\ session = NoUser
    /\ \E email \in DOMAIN accounts :
          /\ session' = email
          /\ user' = email
    /\ probe' = [probe EXCEPT !.lastActivity = Some(probe.now), !.found = "none"]
    /\ UNCHANGED <<accounts, links, faults, wa, hs, dlg>>

\* src/unnamed/part_005:137-140 with 46-57
AuthProvider_signOut ==
    /\ StartedUp
    /\ session # NoUser
    /\ session' = NoUser
    /\ user' = NoUser
    /\ probe' = [probe EXCEPT !.lastActivity = None, !.found = "none"]
    /\ UNCHANGED <<accounts, links, faults, wa, hs, dlg>>

\* a day passes while the page is closed or left alone
Tick ==
    /\ StartedUp
    /\ probe.now < MaxDays * Day
    /\ probe' = [probe EXCEPT !.now = @ + Day]
    /\ UNCHANGED <<accounts, links, session, user, faults, wa, hs, dlg>>

\* the first load of the page, with no session or with the session of an
\* account that signed in a moment ago
InitStartup ==
    /\ accounts = Register(<<>>, AddressText[WalletAccount].walletEmail,
                           WalletPasswordText[<<WalletAccount,
                                                GenuineSignature(WalletAccount)>>])
    /\ links = <<>>
    /\ \/ session = NoUser /\ probe = Mounted(0, None, "none")
       \/ /\ session = AddressText[WalletAccount].walletEmail
          /\ probe = Mounted(0, Some(0), "valid")
    /\ user = NoUser
    /\ faults = MaxFaults
    /\ wa = WaIdle
    /\ hs = [t \in Threads |-> HsIdle]
    /\ dlg = DlgIdle

NextStartup ==
    \/ AuthProvider_mount
    \/ AuthProvider_onAuthStateChange
    \/ initAuth
    \/ handleActivity
    \/ AuthProvider_signIn
    \/ AuthProvider_signOut
    \/ Tick

SpecStartup == InitStartup /\ [][NextStartup]_vars

(***************************************************************************)
(* The derivations on their own: each step evaluates one of them on an     *)
(* input and records the result.                                           *)
(***************************************************************************)
\* src/src/components/FarcasterSignIn.tsx:41-94 on any object of the relay
handleSuccess_Extract ==
    /\ probe = NoProbe
    /\ \E res \in AnyRes :
          probe' = [kind |-> "extract", input |-> res,
                    output |-> [missing |-> MissingUserInformation(res),
                                valid |-> ValidUserData(res),
                                fid |-> Extract(res).fid,
                                username |-> Extract(res).username]]
    /\ UNCHANGED <<accounts, links, session, user, faults, wa, hs, dlg>>

\* Payloads that differ in signature, display name and avatar for one fid
\* and username; the handles include one that makes fc_<fid>_<handle> longer
\* than the 50 characters of FarcasterSignIn.tsx:112.
LongUsername == [i \in 1..46 |-> "n"]
DerivePayloads ==
    [shape : Shapes, fid : Fids, username : Usernames \cup {LongUsername},
     displayName : {None} \cup {Some(d) : d \in DisplayNames},
     pfpUrl : {None} \cup {Some(u) : u \in PfpUrls}, sig : RelaySignatures]

\* src/src/components/FarcasterSignIn.tsx:106-112 after the extraction
SocialCredentials(p) ==
    LET e == Extract(Res(p))
    IN  [email |-> Join(FarcasterEmail(Get(e.fid))),
         password |-> Join(FarcasterPassword(Get(e.fid), Get(e.username)))]

\* src/unnamed/part_003:79-80 on the fid and username that
\* src/src/components/FarcasterSignIn.tsx:236-239 stored for the payload
LinkedCredentials(p) ==
    LET columns == FarcasterColumns(p)
        fid == Get(columns.farcaster_fid)
    IN  [email |-> FidText[fid].email,
         password |-> LinkedFarcasterPassword(fid, Text(columns.farcaster_username))]

handleSuccess_Derive ==
    /\ probe = NoProbe
    /\ \E p \in DerivePayloads :
          probe' = [kind |-> "farcaster", input |-> p,
                    output |-> [signIn |-> SocialCredentials(p),
                                crossLink |-> LinkedCredentials(p)]]
    /\ UNCHANGED <<accounts, links, session, user, faults, wa, hs, dlg>>

\* The spellings of one address and of one signature as a provider may
\* return them: with or without the 0x prefix.
Spellings(string) == {string, Replace(string, Prefix0x, <<>>)}

\* src/unnamed/part_003:57-60 and 133-138
WalletCredentials(address, signature) ==
    [email |-> Join(WalletEmail(address)),
     password |-> Join(WalletPassword(address, signature))]

handleWalletAuth_Derive ==
    /\ probe = NoProbe
    /\ \E a \in Addresses, sg \in WalletSignatures :
       \E addressText \in Spellings(AddressString(a)),
          signatureText \in Spellings(SignatureString(sg)) :
          probe' = [kind |-> "wallet",
                    input |-> [address |-> a, addressText |-> addressText,
                               signature |-> sg, signatureText |-> signatureText],
                    output |-> WalletCredentials(addressText, signatureText)]
    /\ UNCHANGED <<accounts, links, session, user, faults, wa, hs, dlg>>

\* What a provider may answer to one personal_sign request: a string (a
\* signature with or without 0x, or something that is no hex signature), a
\* value that is no string, or an error.
RejectedMessage == <<"d", "e", "n", "i", "e", "d">>
HexMessage == <<"n", "o", "t", " ", "h", "e", "x">>
PrefixMessage == <<"n", "e", "e", "d", "s", " ", "0", "x">>
ProviderAnswers ==
    {[kind |-> "string", value |-> v] :
        v \in Spellings(SignatureString([signer |-> 1, form |-> "lower", last |-> "e"]))
               \cup {<<>>, Prefix0x, <<"0", "x", "z", "z">>, <<"o", "k">>}}
    \cup {[kind |-> "null", value |-> <<>>]}
    \cup {[kind |-> "error", value |-> m] : m \in {RejectedMessage, HexMessage, PrefixMessage}}

\* src/src/lib/walletAuth.ts:49-56 and 72-79: what is returned for an answer
Returned(answer) ==
    IF answer.kind = "string" /\ ~StartsWith(answer.value, Prefix0x)
    THEN [answer EXCEPT !.value = Prefix0x \o @]
    ELSE answer

\* the lower-cased address is passed as it is, without the prefix test
personalSign_BareAddress(address, answers) ==
    LET request(encoding) == [message |-> encoding, address |-> ToLowerCase(address)]
    IN  IF answers[1].kind # "error"
        THEN [requests |-> <<request("plain")>>, returned |-> Some(Returned(answers[1])),
              thrown |-> <<>>]
        ELSE IF Includes(answers[1].value, <<"h", "e", "x">>)
                \/ Includes(answers[1].value, Prefix0x)
        THEN [requests |-> <<request("plain"), request("hex")>>,
              returned |-> IF answers[2].kind # "error" THEN Some(Returned(answers[2]))
                           ELSE None,
              thrown |-> IF answers[2].kind = "error" THEN answers[2].value ELSE <<>>]
        ELSE [requests |-> <<request("plain")>>, returned |-> None,
              thrown |-> answers[1].value]

\* src/src/lib/walletAuth.ts:36-81: the requests made (the message plain or
\* hex-encoded, and the address), and the value returned or the error thrown;
\* answers[n] is the provider's answer to the n-th request
personalSign(address, answers) ==
    LET request(encoding) == [message |-> encoding, address |-> NormalizedAddress(address)]
    IN  IF answers[1].kind # "error"
        THEN [requests |-> <<request("plain")>>, returned |-> Some(Returned(answers[1])),
              thrown |-> <<>>]
        ELSE IF Includes(answers[1].value, <<"h", "e", "x">>)
                \/ Includes(answers[1].value, Prefix0x)
        THEN [requests |-> <<request("plain"), request("hex")>>,
              returned |-> IF answers[2].kind # "error" THEN Some(Returned(answers[2]))
                           ELSE None,
              thrown |-> IF answers[2].kind = "error" THEN answers[2].value ELSE <<>>]
        ELSE [requests |-> <<request("plain")>>, returned |-> None,
              thrown |-> answers[1].value]

TypeErrorMessage == "Cannot read properties of null (reading 'startsWith')"

\* src/unnamed/part_003:55-60 and 133-139: what handleWalletAuth does with the
\* outcome of personalSign when it comes to the wallet identity: the error
\* its catch block shows, or the signIn call it makes
WalletSignIn(address, signed) ==
    IF signed.thrown # <<>> THEN [error |-> Join(signed.thrown), signIn |-> None]
    ELSE IF Get(signed.returned).kind # "string"
    THEN [error |-> TypeErrorMessage, signIn |-> None]
    ELSE [error |-> NoError,
          signIn |-> Some(WalletCredentials(address, Get(signed.returned).value))]

handleWalletAuth_Sign ==
    /\ probe = NoProbe
    /\ \E a \in Addresses, first \in ProviderAnswers, second \in ProviderAnswers :
       \E address \in Spellings(AddressString(a)) :
       \E signed \in {personalSign(address, <<first, second>>)} :
          probe' = [kind |-> "personalSign",
                    input |-> [address |-> a, addressText |-> address,
                               answers |-> <<first, second>>],
                    output |-> [signed |-> signed, next |-> WalletSignIn(address, signed)]]
    /\ UNCHANGED <<accounts, links, session, user, faults, wa, hs, dlg>>

NextDerive ==
    \/ handleSuccess_Extract
    \/ handleSuccess_Derive
    \/ handleWalletAuth_Derive
    \/ handleWalletAuth_Sign

SpecDerive == InitDialog /\ [][NextDerive]_vars

(***************************************************************************)
(* Statements about the model.                                             *)
(***************************************************************************)
Col(ls, u, c) == IF u \in DOMAIN ls THEN ls[u][c] ELSE None

\* the record holds a wallet address and a Farcaster id
Linked(row) == IsSome(row.wallet_address) /\ Truthy(row.farcaster_fid)

\* the wallet address of the record is the address of key k, in any spelling
BindsKey(row, k) ==
    /\ IsSome(row.wallet_address)
    /\ \E b \in Addresses :
          /\ b.k = k
          /\ Get(row.wallet_address) \in {AddressText[b].raw, AddressText[b].normalizedAddress}

WalletEmails == {AddressText[a].walletEmail : a \in Addresses}

WalletOnly(row) ==
    IsSome(row.wallet_address) /\ \A c \in SocialColumns : row[c] = None

\* C1: once some Link Record holds both a wallet address and a Farcaster id,
\* every later successful wallet sign-in with that address and every later
\* successful social sign-in with that fid ends with a session for the owner
\* of that record (no store call having failed).
C1_BothIdentitiesResolveToOwner ==
    /\ \A owner \in DOMAIN wa.linksBefore :
          (/\ faults = 0
           /\ wa.pc = "done" /\ wa.outcome = "verified"
           /\ wa.signature = GenuineSignature(wa.address)
           /\ Linked(wa.linksBefore[owner])
           /\ BindsKey(wa.linksBefore[owner], wa.address.k))
          => session = owner
    /\ \A t \in Threads : \A owner \in DOMAIN hs[t].linksBefore :
          (/\ faults = 0
           /\ hs[t].pc = "done" /\ hs[t].outcome = "welcome"
           /\ Linked(hs[t].linksBefore[owner])
           /\ hs[t].linksBefore[owner].farcaster_fid = Some(hs[t].res.fid))
          => session = owner

\* C2: a handleWalletAuth attempt that presents an address which a Link
\* Record binds to an account A with a Farcaster id never calls sign-up,
\* creates no account, and when it succeeds the session is A's (no store
\* call having failed).
C2_BoundWalletNeverForksAccount ==
    \A A \in DOMAIN wa.linksBefore :
        (/\ faults = 0
         /\ wa.address # NoAddress
         /\ Linked(wa.linksBefore[A])
         /\ BindsKey(wa.linksBefore[A], wa.address.k))
        => /\ \A i \in 1..Len(wa.calls) : wa.calls[i].op # "signUp"
           /\ DOMAIN accounts = DOMAIN wa.accountsBefore
           /\ (wa.pc = "done" /\ wa.outcome = "verified") => session = A

\* the secrets of wallet accounts that no signature of the key leads to
UnrelatedPasswords ==
    {WalletPasswordText[<<a, sg>>] : a \in Addresses, sg \in {x \in WalletSignatures : x.signer = 0}}

\* C3: a handleWalletAuth attempt whose signature was not made by the key of
\* the presented address never signs in to an account of the key's holder
\* or of a social identity: a sign-in call of the attempt succeeds only for
\* an account registered under a string unrelated to the key (no store call
\* having failed).
C3_ForgedSignatureNeverSignsIn ==
    (/\ faults = 0
     /\ wa.address # NoAddress
     /\ wa.signature # GenuineSignature(wa.address))
    => \A i \in 1..Len(wa.calls) :
          (wa.calls[i].op = "signIn" /\ wa.calls[i].ok)
          => wa.calls[i].password \in UnrelatedPasswords

\* C4: within one dialog session the same sign-in payload starts at most one
\* handleSuccess run (one sign-in/sign-up sequence, one Link Record upsert).
C4_SuccessProcessedOnce ==
    \A t, u \in Threads :
        (hs[t].pc # "idle" /\ hs[u].pc # "idle" /\ hs[t].res = hs[u].res) => t = u

\* C5: when the user of a wallet-created account (Link Record with wallet
\* fields only) completes a social sign-in, the social fields are in the
\* Link Record of that account, and neither an account nor a Link Record
\* has been added (no store call having failed).
C5_SocialFieldsJoinWalletAccount ==
    \A t \in Threads : \A W \in WalletEmails :
        (/\ faults = 0
         /\ hs[t].pc = "done" /\ hs[t].outcome = "welcome"
         /\ hs[t].sessionBefore = W
         /\ W \in DOMAIN hs[t].linksBefore
         /\ WalletOnly(hs[t].linksBefore[W]))
        => /\ Col(links, W, "farcaster_fid") = Some(hs[t].res.fid)
           /\ IsSome(Col(links, W, "wallet_address"))
           /\ DOMAIN accounts = DOMAIN hs[t].accountsBefore
           /\ DOMAIN links = DOMAIN hs[t].linksBefore

Preserved(cols) ==
    \A u \in DOMAIN links \cup DOMAIN links' :
        \A c \in cols : Col(links', u, c) = Col(links, u, c)

C7_LegacySecretHeals ==
    \A t \in Threads :
        (/\ faults = 0
         /\ hs[t].pc = "done"
         /\ HsEmail(t) \in DOMAIN hs[t].accountsBefore
         /\ hs[t].accountsBefore[HsEmail(t)] # HsPassword(t))
        => /\ hs[t].outcome = "welcome"
           /\ PasswordMatches(accounts, HsEmail(t), HsPassword(t))

\* sign-in failed, sign-up found the identity registered, every variant failed
AllVariantsFailed(t) ==
    /\ hs[t].pc = "done"
    /\ Len(hs[t].calls) = 2 + Len(HsAltPasswords(t))
    /\ \A i \in 1..Len(hs[t].calls) : ~hs[t].calls[i].ok

\* C8: a social attempt in which sign-in failed, sign-up reported the
\* identity registered and every variant failed ends with the error that
\* names the handle; it created no account, established no session, wrote
\* no Link Record and dispatched no event.
C8_ExhaustedVariantsEndInError ==
    \A t \in Threads :
        AllVariantsFailed(t)
        => /\ hs[t].outcome = "failed"
           /\ hs[t].error = PasswordResetNeeded(Join(hs[t].res.username), HsEmail(t),
                                                 HsPassword(t))
           /\ accounts = hs[t].accountsBefore
           /\ session = hs[t].sessionBefore
           /\ links = hs[t].linksBefore
           /\ hs[t].writes = 0
           /\ hs[t].dispatched = {}

C8_Witness ==
    \E t \in Threads : AllVariantsFailed(t) /\ hs[t].outcome = "failed"

\* the address is bound to a social account and no variant has signed in
CrossLinkFailing ==
    HasFid(wa.existingConnection) /\ ~wa.signedInWithFarcaster

\* C9: a handleWalletAuth attempt that found the address bound to a social
\* account and could not sign in with any variant ends with the error that
\* sends the user to Farcaster sign-in; it made no wallet-identity call,
\* wrote no Link Record and dispatched no event.
C9_CrossLinkFailureEndsInError ==
    CrossLinkFailing
    => /\ wa.pc \in {"altSignIn", "done"}
       /\ \A i \in 1..Len(wa.calls) :
             /\ wa.calls[i].op = "signIn"
             /\ wa.calls[i].email # AddressText[wa.address].walletEmail
       /\ wa.writes = <<>>
       /\ wa.dispatched = {}
       /\ links = wa.linksBefore
       /\ accounts = wa.accountsBefore
       /\ wa.pc = "done"
          => /\ wa.outcome = "failed"
             /\ wa.error = "Your wallet is linked to Farcaster account @"
                             \o Text(Get(wa.existingConnection).row.farcaster_username)
                             \o ", but the password cannot be verified. Please sign in "
                             \o "with Farcaster instead using the Farcaster sign-in button."

C9_Witness ==
    CrossLinkFailing /\ wa.pc = "done" /\ Len(wa.calls) = 2 /\ wa.outcome = "failed"

\* the variants in the order of the statement, for each payload of the model
ExpectedVariants ==
    [p \in Payloads |->
        LET prefix == "fc_" \o Join(NumberToString(p.fid)) \o "_"
            sig == RelaySignatureString(p.sig)
        IN  <<prefix \o Join(p.username),
              prefix \o Join(p.username) \o "_stable_key",
              prefix \o Join(SubSeq(sig, 1, 30)),
              prefix \o Join(SubSeq(sig, 1, 20))>>] @@ <<>>

\* C10: the Session Store calls of one social attempt are: sign-in with the
\* current pair; sign-up only after that sign-in failed; variants only after
\* sign-up failed for a registered identity, in the order current,
\* _stable_key, 30 and 20 characters of the signature; nothing follows a
\* sign-in that succeeded.
C10_CallsInOrder ==
    \A t \in Threads :
        hs[t].pc # "idle"
        => LET c == hs[t].calls
               e == ExpectedVariants[hs[t].res]
               email == "farcaster_" \o Join(NumberToString(hs[t].res.fid))
                          \o "@faragent.local"
           IN  /\ Len(c) <= 6
               /\ \A i \in 1..Len(c) :
                     /\ c[i].email = email
                     /\ i = 1 => c[i].op = "signIn" /\ c[i].password = e[1]
                     /\ i = 2 => c[i].op = "signUp" /\ c[i].password = e[1] /\ ~c[1].ok
                     /\ i >= 3 => /\ c[i].op = "signIn" /\ c[i].password = e[i - 2]
                                  /\ ~c[2].ok /\ email \in DOMAIN accounts
                     /\ i < Len(c) => ~c[i].ok

\* the 20-character variant, the last one, signed in
C10_Witness ==
    \E t \in Threads : Len(hs[t].calls) = 6 /\ hs[t].calls[6].ok

\* C11: while the channel is polled, the adapter sets about recreating the
\* channel only when the relay has reported three 401 errors on the current
\* channel, and none of those errors is put before the user.
C11_RecreationOnThirdErrorOnly ==
    /\ ~dlg.g.earlyRecreation
    /\ ~dlg.g.errorShown

\* C12: the automatic recreations of one dialog session stay within the
\* bound: MaxRecreations, whatever it is taken to be, is never exceeded.
C12_RecreationsBounded ==
    dlg.g.recreations <= MaxRecreations

\* C13: once the dialog is closed and the close has been rendered, hasStarted,
\* hasProcessedSuccess and capturedSuccessData are cleared, and no timer that
\* was pending at the close calls connect or startSignIn while it is closed.
C13_CloseCancelsTimers ==
    /\ dlg.g.lateCalls = {}
    /\ (Settled /\ ~dlg.rd.open)
       => /\ ~dlg.rd.hasStarted
          /\ ~dlg.rd.hasProcessedSuccess
          /\ dlg.rd.capturedSuccessData = NoPayload

\* C14: for one drop of the transport while polling, reconnect is called at
\* most once.
C14_SingleReconnect ==
    dlg.g.reconnects <= 1

\* C15: a run that dispatched 'wallet-connected' or 'farcaster-connected' has
\* written a Link Record before: no event without a successful write.
C15_EventsFollowWrites ==
    /\ wa.dispatched # {} => wa.writes # <<>>
    /\ \A t \in DOMAIN hs : hs[t].dispatched # {} => hs[t].writes > 0

\* the object holds both a fid and a username in one of the three shapes
ShapeYieldsBoth(res) ==
    \/ TruthyNumber(res.fid) /\ TruthyString(res.username)
    \/ TruthyNumber(Opt(res.metadata, "fid")) /\ TruthyString(Opt(res.metadata, "username"))
    \/ /\ TruthyNumber(Opt(res.signatureParams, "fid"))
       /\ TruthyString(Opt(res.signatureParams, "username"))

\* C16: handleSuccess declares an object invalid only when none of the three
\* shapes yields both fid and username, and never when hasValidUserData
\* accepts the object.
C16_ExtractionCoversValidData ==
    probe.kind = "extract" =>
        /\ probe.output.missing => ~ShapeYieldsBoth(probe.input)
        /\ probe.output.valid => ~probe.output.missing

\* C17: the credentials handleSuccess derives are the same for every payload
\* with the same fid and username, whatever its signature, display name and
\* avatar; the email is farcaster_<fid>@faragent.local; and handleWalletAuth
\* derives the same email and secret from the stored fid and username.
C17_SocialCredentialsFromFidAndUsername ==
    probe.kind = "farcaster" =>
        /\ \A p \in DerivePayloads :
              (p.fid = probe.input.fid /\ p.username = probe.input.username)
                  => SocialCredentials(p) = probe.output.signIn
        /\ probe.output.signIn.email
              = "farcaster_" \o Join(NumberToString(probe.input.fid)) \o "@faragent.local"
        /\ probe.output.crossLink = probe.output.signIn

\* the address of key k in lower case without prefix, and the first 40 hex
\* characters of a signature
LowerHex(a) == SubSeq(AddressString([a EXCEPT !.form = "lower"]), 3, 42)
SignatureHex40(sg) == SubSeq(SignatureString(sg), 3, 42)

\* C18: the wallet credentials are wallet_<address without 0x>@faragent.local
\* and w_<first 40 signature hex chars>_<first 4 address chars>, and they
\* are the same for every letter case of the address and with or without
\* the 0x prefix on the address and on the signature.
C18_WalletCredentialsNormalised ==
    probe.kind = "wallet" =>
        /\ probe.output.email
              = "wallet_" \o Join(LowerHex(probe.input.address)) \o "@faragent.local"
        /\ probe.output.password
              = "w_" \o Join(SignatureHex40(probe.input.signature)) \o "_"
                     \o Join(SubSeq(LowerHex(probe.input.address), 1, 4))
        /\ \A form \in AddressForms :
           \A address \in Spellings(AddressString([probe.input.address EXCEPT !.form = form])) :
           \A signature \in Spellings(SignatureString(probe.input.signature)) :
              WalletCredentials(address, signature) = probe.output

\* credentials were derived from a mixed-case address without prefix and a
\* signature without prefix
C18_Witness ==
    /\ probe.kind = "wallet"
    /\ probe.input.address.form = "checksum"
    /\ ~StartsWith(probe.input.addressText, Prefix0x)
    /\ ~StartsWith(probe.input.signatureText, Prefix0x)
    /\ probe.output.email = "wallet_" \o Join(LowerHex(probe.input.address)) \o "@faragent.local"

\* C19: no step removes a Link Record, and every Link Record is the one
\* record of a registered account (the store is keyed by user_id).
C19_RecordsKeptOnePerAccount ==
    [][/\ DOMAIN links \subseteq DOMAIN links'
       /\ DOMAIN links' \subseteq DOMAIN accounts']_vars

\* a social disconnect has emptied the social fields of a record that is
\* still in the store
C19_Witness ==
    /\ probe.kind = "useFarcaster.disconnect"
    /\ probe.output.updated
    /\ probe.input.authUser \in DOMAIN probe.input.links
    /\ Truthy(probe.input.links[probe.input.authUser].farcaster_fid)
    /\ probe.input.authUser \in DOMAIN links
    /\ links[probe.input.authUser].farcaster_fid = None

\* C20: after useWallet.disconnect the Link Store holds the records it held,
\* every record has the social fields it had, the records of other users
\* are as they were, and where the update was applied the wallet_address of
\* the user's record is null.
C20_DisconnectClearsWalletOnly ==
    probe.kind = "useWallet.disconnect" =>
        LET before == probe.input.links
            authUser == probe.input.authUser
        IN  /\ DOMAIN links = DOMAIN before
            /\ \A u \in DOMAIN links :
                  /\ \A c \in SocialColumns : links[u][c] = before[u][c]
                  /\ u # authUser => links[u] = before[u]
            /\ (probe.output.updated /\ authUser \in DOMAIN before)
                  => links[authUser].wallet_address = None

\* the wallet was unlinked from a record that holds a wallet and a Farcaster id
C20_Witness ==
    /\ probe.kind = "useWallet.disconnect"
    /\ probe.output.updated
    /\ probe.input.authUser \in DOMAIN probe.input.links
    /\ IsSome(probe.input.links[probe.input.authUser].wallet_address)
    /\ Truthy(probe.input.links[probe.input.authUser].farcaster_fid)
    /\ links[probe.input.authUser].wallet_address = None

\* a finished attempt for an address that had no account and no Link Record
FreshWalletVerified ==
    /\ wa.pc = "done" /\ wa.outcome = "verified"
    /\ WaEmail(wa) \notin DOMAIN wa.accountsBefore
    /\ \A u \in DOMAIN wa.linksBefore :
          /\ u # WaEmail(wa)
          /\ Text(wa.linksBefore[u].wallet_address) \notin LookupSpellings(AddressString(wa.address))

\* C21: for an address with no account and no Link Record, handleWalletAuth
\* calls signIn (refused) and then signUp (accepted), and ends with one new
\* account and one new Link Record for it, whose wallet_address is the
\* lower-cased 0x-prefixed address and whose social fields are unset.
C21_FreshWalletGetsWalletOnlyRecord ==
    FreshWalletVerified =>
        /\ wa.calls = <<Call("signIn", WaEmail(wa), WaPassword(wa), FALSE),
                        Call("signUp", WaEmail(wa), WaPassword(wa), TRUE)>>
        /\ accounts = Register(wa.accountsBefore, WaEmail(wa), WaPassword(wa))
        /\ DOMAIN links = DOMAIN wa.linksBefore \cup {WaEmail(wa)}
        /\ \A u \in DOMAIN wa.linksBefore : links[u] = wa.linksBefore[u]
        /\ links[WaEmail(wa)].wallet_address
              = Some(Join(Prefix0x \o ToLowerCase(SubSeq(AddressString(wa.address), 3, 42))))
        /\ \A c \in SocialColumns : links[WaEmail(wa)][c] = None

\* such an attempt has ended, for an address reported in mixed case
C21_Witness ==
    /\ FreshWalletVerified
    /\ wa.address.form = "checksum"
    /\ Len(wa.calls) = 2
    /\ WaEmail(wa) \in DOMAIN links

\* C22: an attempt that ended because no provider was found, or with the
\* error of a rejected prompt, made no signIn or signUp call, wrote no Link
\* Record and left the stores and the session as it found them.
C22_NoProviderOrRejectionTouchesNothing ==
    (wa.pc = "done" /\ (wa.outcome = "not_found" \/ wa.error = RejectedError)) =>
        /\ wa.outcome = "not_found" \/ wa.outcome = "failed"
        /\ wa.calls = <<>>
        /\ wa.writes = <<>>
        /\ accounts = wa.accountsBefore
        /\ links = wa.linksBefore
        /\ session = wa.sessionBefore

\* the signature prompt was rejected while a session of an earlier attempt
\* was still there
C22_Witness ==
    /\ wa.pc = "done" /\ wa.outcome = "failed" /\ wa.error = RejectedError
    /\ wa.address # NoAddress
    /\ session # NoUser

\* a hex signature: 0x and 130 hex digits
HexDigits == {"0", "1", "2", "3", "4", "5", "6", "7", "8", "9",
              "a", "b", "c", "d", "e", "f", "A", "B", "C", "D", "E", "F"}
WellFormedSignature(answer) ==
    /\ answer.kind = "string"
    /\ LET hex == Replace(answer.value, Prefix0x, <<>>)
       IN  Len(hex) = 130 /\ \A i \in 1..Len(hex) : hex[i] \in HexDigits

\* the answer personalSign went by
LastAnswer == probe.input.answers[Len(probe.output.signed.requests)]

\* C23: when the provider's answer to personal_sign is no well-formed hex
\* signature, handleWalletAuth ends with an 'invalid signature format' error
\* and makes no signIn call with credentials derived from the answer.
C23_MalformedSignatureRejected ==
    (probe.kind = "personalSign" /\ LastAnswer.kind # "error"
        /\ ~WellFormedSignature(LastAnswer)) =>
        /\ probe.output.next.signIn = None
        /\ probe.output.next.error = "invalid signature format"

\* C28: personalSign passes the lower-cased 0x-prefixed address in every
\* request; it makes a second request, with the hex-encoded message, exactly
\* when the first failed with a message that mentions hex or 0x, and never a
\* third; any other first error is thrown as it is; a string it returns
\* starts with 0x.
C28_PersonalSignRequests ==
    probe.kind = "personalSign" =>
        LET signed == probe.output.signed
            first == probe.input.answers[1]
            retried == /\ first.kind = "error"
                       /\ \/ Includes(first.value, <<"h", "e", "x">>)
                          \/ Includes(first.value, Prefix0x)
        IN  /\ \A n \in 1..Len(signed.requests) :
                  signed.requests[n].address
                     = Prefix0x \o SubSeq(AddressString([probe.input.address
                                                           EXCEPT !.form = "lower"]), 3, 42)
            /\ Len(signed.requests) = IF retried THEN 2 ELSE 1
            /\ signed.requests[1].message = "plain"
            /\ retried => signed.requests[2].message = "hex"
            /\ (first.kind = "error" /\ ~retried)
                  => signed.thrown = first.value /\ signed.returned = None
            /\ (IsSome(signed.returned) /\ Get(signed.returned).kind = "string")
                  => StartsWith(Get(signed.returned).value, Prefix0x)

\* the first request failed for the encoding, the second was answered with a
\* signature without prefix, for a mixed-case address without prefix
C28_Witness ==
    /\ probe.kind = "personalSign"
    /\ probe.input.answers[1] = [kind |-> "error", value |-> HexMessage]
    /\ probe.input.answers[2].kind = "string"
    /\ ~StartsWith(probe.input.answers[2].value, Prefix0x)
    /\ Len(probe.input.answers[2].value) = 130
    /\ probe.input.address.form = "checksum"
    /\ ~StartsWith(probe.input.addressText, Prefix0x)
    /\ Len(probe.output.signed.requests) = 2

\* the calls of operation op made by one attempt
CallsOf(calls, op) == {i \in 1..Len(calls) : calls[i].op = op}

\* C24: a social linking attempt surfaces a transient Session Store failure
\* only after it has repeated the call that failed: an attempt that ended
\* with the sign-up's transient error has called sign-up more than once.
C24_TransientFailureRetried ==
    \A t \in Threads :
        (hs[t].outcome = "failed" /\ hs[t].error = OtherError) =>
            Cardinality(CallsOf(hs[t].calls, "signUp")) >= 2

\* a wallet attempt that came to its sign-in and has ended, begun over stores
\* that held at most the account and record of the same wallet identity
UnboundAttempt(w) ==
    /\ w.pc = "done"
    /\ w.calls # <<>>
    /\ DOMAIN w.accountsBefore \subseteq {WaEmail(w)}
    /\ DOMAIN w.linksBefore \subseteq {WaEmail(w)}

\* the Link Records that carry address a
RecordsOf(ls, a) ==
    {u \in DOMAIN ls : /\ IsSome(ls[u].wallet_address)
                       /\ Get(ls[u].wallet_address) \in AddressText[a].spellings}

\* C25: when two browsers have both finished a handleWalletAuth attempt for
\* the same unbound wallet address with the same signature, whatever the
\* interleaving of their steps, both hold a session of the one account of
\* that address and exactly one Link Record carries the address.
C25_ConcurrentAttemptsShareOneAccount ==
    (/\ probe.kind = "browser"
     /\ UnboundAttempt(wa) /\ UnboundAttempt(probe.wa)
     /\ wa.address.k = probe.wa.address.k
     /\ wa.signature = probe.wa.signature) =>
        /\ wa.outcome = "verified" /\ probe.wa.outcome = "verified"
        /\ session = WaEmail(wa) /\ probe.session = WaEmail(wa)
        /\ wa.authUser = WaEmail(wa) /\ probe.wa.authUser = WaEmail(wa)
        /\ DOMAIN accounts = {WaEmail(wa)}
        /\ RecordsOf(links, wa.address) = {WaEmail(wa)}
        /\ links[WaEmail(wa)].wallet_address
              = Some(AddressText[wa.address].normalizedAddress)

\* both attempts began before either had signed up, and the one that lost
\* the sign-up signed in again
C25_Witness ==
    /\ probe.kind = "browser"
    /\ UnboundAttempt(wa) /\ UnboundAttempt(probe.wa)
    /\ wa.address.k = probe.wa.address.k
    /\ wa.signature = probe.wa.signature
    /\ wa.accountsBefore = <<>> /\ probe.wa.accountsBefore = <<>>
    /\ Len(wa.calls) = 3 /\ wa.calls[2].op = "signUp" /\ ~wa.calls[2].ok
    /\ Len(probe.wa.calls) = 2 /\ probe.wa.calls[2].ok
    /\ wa.writes = <<"upsert">> /\ probe.wa.writes = <<"upsert">>

\* the Link Record of id holds the columns that a social attempt of the other
\* browser has upserted for it
HoldsSocialWrite(ls, id) ==
    /\ id \in DOMAIN ls
    /\ \E t \in Threads :
          /\ probe.hs[t].writes >= 1
          /\ probe.hs[t].authUser = id
          /\ \A c \in DOMAIN PayloadText[probe.hs[t].res].columns :
                ls[id][c] = PayloadText[probe.hs[t].res].columns[c]

\* the record of id is no longer the one the wallet attempt has read
ChangedSinceRead(w, ls) ==
    w.currentConnection = None \/ Get(w.currentConnection).row # ls[w.authUser]

\* C26: when the social flow of another browser has upserted its columns into
\* the account's Link Record after handleWalletAuth read currentConnection,
\* the upsert of handleWalletAuth leaves every social column as that write
\* stored it.
C26_SocialWriteSurvivesWalletUpsert ==
    [][(/\ probe.kind = "browser" /\ probe' = probe
        /\ wa.pc = "upsert" /\ wa'.pc = "done"
        /\ HoldsSocialWrite(links, wa.authUser)
        /\ ChangedSinceRead(wa, links)) =>
            \A c \in SocialColumns :
                links'[wa.authUser][c] = links[wa.authUser][c]]_vars

\* the last Session Store call of the attempt was a sign-in that succeeded
\* with a variant other than the current one
SignedInWithOldVariant(t) ==
    /\ hs[t].calls # <<>>
    /\ LET last == hs[t].calls[Len(hs[t].calls)]
       IN  last.op = "signIn" /\ last.ok /\ last.password # HsPassword(t)

\* C27: a social attempt comes to reset-farcaster-password only from the loop
\* over the variants and with no update invoked before (at most once), right
\* after a sign-in succeeded with a variant other than the current one; an
\* update that went through has stored the current-variant secret; an attempt
\* whose update was invoked never ends in an error, and when the update was
\* the only call that failed the attempt has upserted its Link Record and
\* ended with the welcome.
C27_SecretUpdateOnceAndHarmless ==
    /\ [](\A t \in Threads :
            /\ (hs[t].pc = "reset" \/ hs[t].reset # "none") => SignedInWithOldVariant(t)
            /\ hs[t].pc = "reset" => hs[t].reset = "none"
            /\ hs[t].reset = "updated" =>
                  PasswordMatches(accounts, HsEmail(t), HsPassword(t))
            /\ hs[t].reset # "none" => hs[t].outcome # "failed"
            /\ (hs[t].reset = "failed" /\ hs[t].pc = "done" /\ faults = 1) =>
                  hs[t].outcome = "welcome" /\ hs[t].writes >= 1)
    /\ [][\A t \in Threads :
            (hs'[t].pc = "reset" /\ hs[t].pc # "reset") =>
                hs[t].pc = "altSignIn" /\ hs[t].reset = "none"]_vars

\* the update failed and the attempt wrote its Link Record all the same
C27_Witness ==
    \E t \in Threads :
        /\ hs[t].reset = "failed" /\ hs[t].pc = "done"
        /\ hs[t].outcome = "welcome" /\ hs[t].writes >= 1
        /\ SignedInWithOldVariant(t)

\* C29: in every state of the hook, after any sequence of connect,
\* disconnect, loadWallet and provider events, isConnected is true exactly
\* when address is not null, and isConnecting is false when isConnected is
\* true.
C29_WalletStateConsistent ==
    probe.kind = "useWallet" =>
        /\ probe.state.isConnected <=> probe.state.address # None
        /\ probe.state.isConnected => ~probe.state.isConnecting

\* C30: when the provider is mounted over a persisted session whose stored
\* timestamp is older than the timeout, it exposes no user in any state, in
\* either order of the listener and initAuth, and the session is signed out
\* once both have run; when the timestamp is within the timeout, the user is
\* exposed and the timestamp refreshed once both have run.
C30_ExpiredSessionNeverExposed ==
    probe.kind = "AuthProvider" =>
        /\ probe.found = "expired" =>
              /\ user = NoUser
              /\ StartedUp => session = NoUser
        /\ (probe.found = "valid" /\ StartedUp) =>
              /\ user = session /\ user # NoUser
              /\ IsSome(probe.lastActivity)
              /\ Get(probe.lastActivity) >= probe.mountedAt

====
